---- MODULE Spec2Model ----
(***************************************************************************)
(* Scheduling and execution engine of instance_me (scheduler_agent.py) and *)
(* the todo store operations of the chat front end (todo/actions.py).      *)
(*                                                                         *)
(* Time is a count of abstract minutes: a day has DayLen of them, the time *)
(* of day of instant t is t % DayLen and its calendar date is t \div       *)
(* DayLen.  JSON values that the code reads are modelled by what the code  *)
(* does with them: a value that is absent, of the wrong type or malformed  *)
(* is a distinct token, so that every branch and every uncaught exception  *)
(* of the code has a value that takes it.                                  *)
(***************************************************************************)
EXTENDS Integers, Sequences, FiniteSets, TLC

VARIABLES
    evTask,      \* SpecEval: the task record handed to evaluate_task
    evEntry,     \* SpecEval: the run-state entry stored under the task's id
    evNow,       \* SpecEval: the instant of the evaluation
    evOut,       \* SpecEval: what the last call of evaluate_task produced
    clock,       \* the wall clock
    env,         \* the process environment and config.json
    tasksDoc,    \* local_file/agent_tasks.json
    todosDoc,    \* local_file/todos.json
    lastOp,      \* the last operation on the todo document, the last task step
    opCount,     \* the operations other than scans (SpecTodo), the edits (Spec) so far
    stateDoc,    \* cache_dir/personal_agent_state.json
    heartbeat,   \* cache_dir/agent_heartbeat.json: <<>> or <<timestamp>>
    logged,      \* the lines the tick under way has appended to agent_log.txt
    pc,          \* the scheduler: started, loop, idle (asleep), dead (killed), crashed
    cycle,       \* the locals of run_cycle: now, tasks, state, state_changed, i
    skip_notices,\* TaskScheduler.skip_notices
    restarts,    \* how often the process was started again
    once,        \* the argument of run(): one tick, or ticks until the process ends
    invoked,     \* history: calls of run_task per task id on the day of the last tick
    completed,   \* history: calls of run_task that returned, per id and day
    ranOnce,     \* history: ids of the todos whose action has returned
    ranTwice,    \* history: ids of the todos whose action has returned twice
    scanning,    \* SpecRace: the todo list that the scheduler thread holds in memory
    calling,     \* SpecRace: the call of a chat tool under way, with the list it holds
    session,     \* todo/memory.py: the entry of _MEMORY under the key of the chat session
    guarded,     \* the last call of guard_tool_call: what came in, what it let through
    route        \* todo/router.py: the locals of master_execute, and what it has done

evalVars == <<evTask, evEntry, evNow, evOut>>
storeVars == <<clock, env, tasksDoc, todosDoc>>
todoVars == <<lastOp, opCount>>
procVars == <<stateDoc, heartbeat, logged, pc, cycle, skip_notices, restarts, once>>
histVars == <<invoked, completed, ranOnce, ranTwice>>
schedVars == <<procVars, histVars>>
memVars == <<scanning, calling>>
chatVars == <<session, guarded, route>>
vars == <<evalVars, storeVars, todoVars, schedVars, memVars, chatVars>>

----------------------------------------------------------------------------
(* Bounds of the model *)

DayLen == 3          \* abstract minutes in a calendar day
MaxDay == 6          \* calendar days 0..MaxDay: day 0 is a Monday
MaxMinutes == 2      \* largest interval length of a task
MaxSeed == 2         \* items of the todo document at the start
MaxOps == 2          \* operations on the todo document other than scans
MaxTasks == 2        \* tasks of the task document
MaxRestarts == 1     \* restarts of the scheduler process
MaxTick == 3         \* the last instant at which the scheduler ticks
MaxEdits == 1        \* edits of the documents between the ticks of the scheduler

MaxNow == (MaxDay + 1) * DayLen - 1
Instants == 0..MaxNow

DayOf(t) == t \div DayLen
TimeOf(t) == t % DayLen
WeekdayOf(t) == DayOf(t) % 7

----------------------------------------------------------------------------
(* Values of the JSON documents *)

\* A "time" field: absent or empty, a truthy value that is no string, or a
\* string h:m, which <<"hhmm", n>> stands for; n = DayLen is a string such as
\* "24:00" that strptime rejects.
TimeFields == {<<"missing">>, <<"nonstr">>} \cup {<<"hhmm", n>> : n \in 0..DayLen}

\* A "minutes" field: something int() takes, or something it rejects.
MinuteFields == {<<"nonnum">>} \cup {<<"int", m>> : m \in 0..MaxMinutes}

\* A run-state entry: absent (or falsy), an ISO timestamp with or without an
\* offset, a string that is no ISO timestamp, a truthy value that is no string.
Absent == <<"absent">>
Aware(t) == <<"aware", t>>
Naive(t) == <<"naive", t>>
Entries == {Absent, <<"garbage">>, <<"nonstr">>}
           \cup {Aware(t) : t \in Instants} \cup {Naive(t) : t \in Instants}

WEEKDAY_MAP == [d \in {"mon", "tue", "wed", "thu", "fri", "sat", "sun"} |->
    CASE d = "mon" -> 0 [] d = "tue" -> 1 [] d = "wed" -> 2 [] d = "thu" -> 3
      [] d = "fri" -> 4 [] d = "sat" -> 5 [] d = "sun" -> 6]

\* str(x).lower() on the day_of_week tokens of the model.
Lower(d) == IF d = "MON" THEN "mon" ELSE d

\* A schedule: absent, a value that is no object, or an object.
NoSchedule == [shape |-> "absent"]
BadSchedule == [shape |-> "notobj"]
Schedule(kind, minutes, time, dow) ==
    [shape |-> "obj", kind |-> kind, minutes |-> minutes, time |-> time,
     day_of_week |-> dow]

----------------------------------------------------------------------------
(* The schedule evaluator *)

Value(v) == [raised |-> FALSE, val |-> v]
Raised == [raised |-> TRUE, val |-> <<>>]

\* parse_time: None for a falsy value and for a string strptime rejects
\* (ValueError is caught); a value that is no string raises TypeError.
parse_time(value) ==
    CASE value[1] = "missing" -> Value(<<>>)
      [] value[1] = "nonstr" -> Raised
      [] value[1] = "hhmm" ->
            IF value[2] < DayLen THEN Value(<<value[2]>>) ELSE Value(<<>>)

\* datetime.fromisoformat: ValueError for a string that is no timestamp,
\* TypeError for a value that is no string.
fromisoformat(entry) ==
    CASE entry[1] \in {"aware", "naive"} ->
            [exc |-> "none", aware |-> entry[1] = "aware", t |-> entry[2]]
      [] entry[1] = "garbage" -> [exc |-> "ValueError", aware |-> FALSE, t |-> 0]
      [] OTHER -> [exc |-> "TypeError", aware |-> FALSE, t |-> 0]

\* last_run_date as it would be without .date(): the instant of the last run
\* instead of its calendar day.
last_run_date_Instant(last_run) ==
    IF last_run = Absent THEN Value(<<>>)
    ELSE LET p == fromisoformat(last_run) IN
         CASE p.exc = "none" -> Value(<<p.t>>)
           [] p.exc = "ValueError" -> Value(<<>>)
           [] OTHER -> Raised

\* last_run_date: None for a falsy entry and on ValueError.
last_run_date(last_run) ==
    IF last_run = Absent THEN Value(<<>>)
    ELSE LET p == fromisoformat(last_run) IN
         CASE p.exc = "none" -> Value(<<DayOf(p.t)>>)
           [] p.exc = "ValueError" -> Value(<<>>)
           [] OTHER -> Raised

Ret(due, reason) == [raised |-> FALSE, due |-> due, reason |-> reason]
Raise(exc) == [raised |-> TRUE, due |-> FALSE, reason |-> exc]

\* The interval branch as it would be if the task were due at the one instant
\* at which the interval has just elapsed.
EvaluateInterval_Exact(schedule, now, last_run_at) ==
    IF schedule.minutes[1] # "int" THEN Ret(FALSE, "missing interval")
    ELSE IF last_run_at = Absent THEN Ret(TRUE, "interval due")
    ELSE LET p == fromisoformat(last_run_at) IN
         CASE p.exc = "TypeError" -> Raise("TypeError")
           [] p.exc = "ValueError" -> Ret(TRUE, "interval due")
           [] ~p.aware -> Raise("TypeError")
           [] now - p.t # schedule.minutes[2] -> Ret(FALSE, "interval not due yet")
           [] OTHER -> Ret(TRUE, "interval due")

\* The interval branch as it would be if the task were due only after more
\* than its interval.
EvaluateInterval_Late(schedule, now, last_run_at) ==
    IF schedule.minutes[1] # "int" THEN Ret(FALSE, "missing interval")
    ELSE IF last_run_at = Absent THEN Ret(TRUE, "interval due")
    ELSE LET p == fromisoformat(last_run_at) IN
         CASE p.exc = "TypeError" -> Raise("TypeError")
           [] p.exc = "ValueError" -> Ret(TRUE, "interval due")
           [] ~p.aware -> Raise("TypeError")
           [] now - p.t <= schedule.minutes[2] -> Ret(FALSE, "interval not due yet")
           [] OTHER -> Ret(TRUE, "interval due")

\* The interval branch of evaluate_task.
EvaluateInterval(schedule, now, last_run_at) ==
    IF schedule.minutes[1] # "int" THEN Ret(FALSE, "missing interval")
    ELSE IF last_run_at = Absent THEN Ret(TRUE, "interval due")
    ELSE LET p == fromisoformat(last_run_at) IN
         CASE p.exc = "TypeError" -> Raise("TypeError")
           [] p.exc = "ValueError" -> Ret(TRUE, "interval due")
           [] ~p.aware -> Raise("TypeError")
           [] now - p.t < schedule.minutes[2] -> Ret(FALSE, "interval not due yet")
           [] OTHER -> Ret(TRUE, "interval due")

\* The daily and weekly branches as they would be if a weekly task were due
\* on its weekday at any time, and at its time on any weekday.
EvaluateCalendar_EitherCondition(schedule, now, last_run_at) ==
    LET run_time == parse_time(schedule.time)
        last_run == last_run_date(last_run_at)
    IN  CASE run_time.raised -> Raise("TypeError")
          [] run_time.val = <<>> -> Ret(FALSE, "missing schedule time")
          [] last_run.raised -> Raise("TypeError")
          [] last_run.val = <<DayOf(now)>> -> Ret(FALSE, "already ran today")
          [] schedule.kind = "daily" ->
                Ret(TimeOf(now) >= run_time.val[1], "not due yet")
          [] schedule.kind = "weekly" ->
                LET day_of_week == Lower(schedule.day_of_week) IN
                IF day_of_week \notin DOMAIN WEEKDAY_MAP
                THEN Ret(FALSE, "invalid schedule")
                ELSE Ret(WeekdayOf(now) = WEEKDAY_MAP[day_of_week]
                           \/ TimeOf(now) >= run_time.val[1], "not due yet")
          [] OTHER -> Ret(FALSE, "unsupported schedule")

\* The daily and weekly branches as they would be if a task were due at the
\* minute of its time alone.
EvaluateCalendar_ExactMinute(schedule, now, last_run_at) ==
    LET run_time == parse_time(schedule.time)
        last_run == last_run_date(last_run_at)
    IN  CASE run_time.raised -> Raise("TypeError")
          [] run_time.val = <<>> -> Ret(FALSE, "missing schedule time")
          [] last_run.raised -> Raise("TypeError")
          [] last_run.val = <<DayOf(now)>> -> Ret(FALSE, "already ran today")
          [] schedule.kind = "daily" ->
                Ret(TimeOf(now) = run_time.val[1], "not due yet")
          [] schedule.kind = "weekly" ->
                LET day_of_week == Lower(schedule.day_of_week) IN
                IF day_of_week \notin DOMAIN WEEKDAY_MAP
                THEN Ret(FALSE, "invalid schedule")
                ELSE Ret(WeekdayOf(now) = WEEKDAY_MAP[day_of_week]
                           /\ TimeOf(now) = run_time.val[1], "not due yet")
          [] OTHER -> Ret(FALSE, "unsupported schedule")

\* The daily and weekly branches of evaluate_task.
EvaluateCalendar(schedule, now, last_run_at) ==
    LET run_time == parse_time(schedule.time)
        last_run == last_run_date(last_run_at)
    IN  CASE run_time.raised -> Raise("TypeError")
          [] run_time.val = <<>> -> Ret(FALSE, "missing schedule time")
          [] last_run.raised -> Raise("TypeError")
          [] last_run.val = <<DayOf(now)>> -> Ret(FALSE, "already ran today")
          [] schedule.kind = "daily" ->
                Ret(TimeOf(now) >= run_time.val[1], "not due yet")
          [] schedule.kind = "weekly" ->
                LET day_of_week == Lower(schedule.day_of_week) IN
                IF day_of_week \notin DOMAIN WEEKDAY_MAP
                THEN Ret(FALSE, "invalid schedule")
                ELSE Ret(WeekdayOf(now) = WEEKDAY_MAP[day_of_week]
                           /\ TimeOf(now) >= run_time.val[1], "not due yet")
          [] OTHER -> Ret(FALSE, "unsupported schedule")

evaluate_task(task, now, last_run_at) ==
    LET schedule == task.schedule IN
    CASE schedule.shape = "notobj" -> Raise("AttributeError")
      [] schedule.shape = "absent" -> Ret(FALSE, "missing schedule")
      [] schedule.kind = "none" -> Ret(FALSE, "missing schedule")
      [] schedule.kind = "interval" -> EvaluateInterval(schedule, now, last_run_at)
      [] OTHER -> EvaluateCalendar(schedule, now, last_run_at)

----------------------------------------------------------------------------
(* The todo document and the action dispatcher *)

\* A JSON document on disk: a list, valid JSON of another shape, or text that
\* is no JSON.  load_json returns the default for text that is no JSON.
ListDoc(items) == [shape |-> "list", items |-> items]
NonListDoc == [shape |-> "nonlist", items |-> <<>>]
InvalidDoc == [shape |-> "invalid", items |-> <<>>]

\* An action descriptor: an object, a value that is no object, or absent (the
\* code then takes {}, whose type defaults to note).
Action(type, repo_path, command) ==
    [shape |-> "obj", type |-> type, repo_path |-> repo_path, command |-> command]
NotAnAction == [shape |-> "notobj", type |-> "", repo_path |-> <<>>, command |-> <<>>]
NoAction == [shape |-> "absent", type |-> "", repo_path |-> <<>>, command |-> <<>>]

Note == Action("note", <<>>, <<>>)
Shell == Action("shell", <<>>, <<"cmd">>)
XingyunCheck(repo_path) == Action("xingyun_tag_check", repo_path, <<>>)
ChanganCheck(repo_path) == Action("changan_workorder_check", repo_path, <<>>)

\* A todo item: an object, or a list element that is no object.  Optional
\* fields are <<>> when absent and <<v>> when set.
Todo(id, title, due_at, status, action) ==
    [kind |-> "obj", id |-> id, title |-> title, due_at |-> due_at,
     status |-> status, action |-> action, done_at |-> <<>>, result |-> <<>>,
     last_error |-> <<>>, last_attempt_at |-> <<>>]
NotATodo ==
    [kind |-> "notobj", id |-> <<>>, title |-> "", due_at |-> <<"missing">>,
     status |-> "", action |-> NotAnAction, done_at |-> <<>>, result |-> <<>>,
     last_error |-> <<>>, last_attempt_at |-> <<>>]

\* The process environment: the two repository variables, and the default of
\* config.json for each of the two named checks, each <<>> when unset.
NamedChecks == {"xingyun_tag_check", "changan_workorder_check"}
Config(xingyun, changan) ==
    [t \in NamedChecks |-> IF t = "xingyun_tag_check" THEN xingyun ELSE changan]
NoConfig == Config(<<>>, <<>>)
Environ(xingyun, changan, config) ==
    [XINGYUN_REPO_PATH |-> xingyun, CHANGAN_REPO_PATH |-> changan,
     config_repo_path |-> config]

\* get_repo_path_from_config: the default of config.json for the check.
get_repo_path_from_config(environ, action_type) ==
    IF action_type \in NamedChecks THEN environ.config_repo_path[action_type] ELSE <<>>

\* os.getenv of the variable of a named check.
RepoPathVariable(environ, action_type) ==
    IF action_type = "xingyun_tag_check" THEN environ.XINGYUN_REPO_PATH
    ELSE environ.CHANGAN_REPO_PATH

\* config.get("repo_path") or os.getenv(...): the repository of a named check
\* at its dispatch.
DispatchRepoPath(config, env_value) ==
    IF config.repo_path # <<>> THEN config.repo_path ELSE env_value

\* parse_datetime: None for a falsy value and for a string of neither format;
\* a truthy value that is no string makes strptime raise TypeError.
parse_datetime(value) ==
    CASE value[1] = "dt" -> Value(<<value[2]>>)
      [] value[1] = "nonstr" -> Raised
      [] OTHER -> Value(<<>>)

\* The outcome of a dispatch: the result string, or the exception's message.
Done(result) == [raised |-> FALSE, val |-> result]
Failed(message) == [raised |-> TRUE, val |-> message]

\* run_shell: the subprocess exits 0 (ok) or not.  Without command (the
\* caller hands "" for an action that has none) the shell is given the empty
\* command line, which exits 0 without output.
run_shell(command, ok) ==
    IF command = <<>> THEN Done("Command finished without output.")
    ELSE IF ok THEN Done("output")
    ELSE Failed("Command failed")

run_xingyun_tag_check(config, environ, ok) ==
    LET repo_path == DispatchRepoPath(config, environ.XINGYUN_REPO_PATH)
    IN  IF repo_path = <<>>
        THEN Failed("Missing XINGYUN_REPO_PATH for Xingyun tag check.")
        ELSE run_shell(<<"script">>, ok)

run_changan_workorder_check(config, environ, ok) ==
    LET repo_path == DispatchRepoPath(config, environ.CHANGAN_REPO_PATH)
    IN  IF repo_path = <<>>
        THEN Failed("Missing CHANGAN_REPO_PATH for Changan work order check.")
        ELSE run_shell(<<"script">>, ok)

\* The try block as it would be if an action of a type that is none of note,
\* shell and the named checks were refused.
DispatchTodoAction_Strict(action, environ, ok) ==
    CASE action.type = "xingyun_tag_check" -> run_xingyun_tag_check(action, environ, ok)
      [] action.type = "changan_workorder_check" ->
            run_changan_workorder_check(action, environ, ok)
      [] action.type = "shell" -> run_shell(action.command, ok)
      [] action.type = "note" -> Done("Logged todo action.")
      [] OTHER -> Failed("Unsupported action type")

\* The try block of run_todo_scan up to the result.
DispatchTodoAction(action, environ, ok) ==
    CASE action.type = "xingyun_tag_check" -> run_xingyun_tag_check(action, environ, ok)
      [] action.type = "changan_workorder_check" ->
            run_changan_workorder_check(action, environ, ok)
      [] action.type = "shell" -> run_shell(action.command, ok)
      [] OTHER -> Done("Logged todo action.")

\* One iteration of the loop of run_todo_scan.  exc: an exception that leaves
\* the loop; dispatched, succeeded: whether the action was run, and returned.
ScanStep(todo, exc, dispatched, succeeded) ==
    [todo |-> todo, exc |-> exc, dispatched |-> dispatched, succeeded |-> succeeded]

\* The iteration as it would be if the item were marked done before its
\* action is dispatched, and the failure recorded on top of that.
ScanTodo_DoneFirst(todo, now, environ, ok) ==
    IF todo.kind # "obj" THEN ScanStep(todo, TRUE, FALSE, FALSE)
    ELSE IF todo.status = "done" THEN ScanStep(todo, FALSE, FALSE, FALSE)
    ELSE LET due_at == parse_datetime(todo.due_at) IN
         IF due_at.raised THEN ScanStep(todo, TRUE, FALSE, FALSE)
         ELSE IF due_at.val = <<>> \/ due_at.val[1] > now
              THEN ScanStep(todo, FALSE, FALSE, FALSE)
         ELSE IF todo.action.shape = "notobj" THEN ScanStep(todo, TRUE, FALSE, FALSE)
         ELSE LET r == DispatchTodoAction(todo.action, environ, ok) IN
              IF ~r.raised
              THEN ScanStep([todo EXCEPT !.status = "done", !.done_at = <<now>>,
                                         !.result = <<r.val>>], FALSE, TRUE, TRUE)
              ELSE ScanStep([todo EXCEPT !.status = "done", !.last_error = <<r.val>>,
                                         !.last_attempt_at = <<now>>], FALSE, TRUE, FALSE)

ScanTodo(todo, now, environ, ok) ==
    IF todo.kind # "obj" THEN ScanStep(todo, TRUE, FALSE, FALSE)
    ELSE IF todo.status = "done" THEN ScanStep(todo, FALSE, FALSE, FALSE)
    ELSE LET due_at == parse_datetime(todo.due_at) IN
         IF due_at.raised THEN ScanStep(todo, TRUE, FALSE, FALSE)
         ELSE IF due_at.val = <<>> \/ due_at.val[1] > now
              THEN ScanStep(todo, FALSE, FALSE, FALSE)
         ELSE IF todo.action.shape = "notobj" THEN ScanStep(todo, TRUE, FALSE, FALSE)
         ELSE LET r == DispatchTodoAction(todo.action, environ, ok) IN
              IF ~r.raised
              THEN ScanStep([todo EXCEPT !.status = "done", !.done_at = <<now>>,
                                         !.result = <<r.val>>], FALSE, TRUE, TRUE)
              ELSE ScanStep([todo EXCEPT !.last_error = <<r.val>>,
                                         !.last_attempt_at = <<now>>], FALSE, TRUE, FALSE)

\* The lines that the iteration for a due item appends to the log: the
\* default branch of the dispatch writes "TODO: ..." (l.204-205), a dispatch
\* that returned is followed by the block of its result (l.212), one that
\* raised by the line of its failure (l.216).
ActionLines(action) ==
    IF action.type \in {"xingyun_tag_check", "changan_workorder_check", "shell"} THEN <<>>
    ELSE <<"TODO">>
ScanLines(todo, environ, ok) ==
    IF DispatchTodoAction(todo.action, environ, ok).raised THEN <<"failed">>
    ELSE ActionLines(todo.action) \o <<"completed">>

\* The loop of run_todo_scan over todos[i..n]: the list in memory, whether an
\* exception left the loop, and the positions dispatched and succeeded.
RECURSIVE ScanLoop(_, _, _, _, _, _, _)
ScanLoop(todos, i, n, now, environ, oks, acc) ==
    IF i > n \/ acc.raised THEN [acc EXCEPT !.todos = todos]
    ELSE LET s == ScanTodo(todos[i], now, environ, oks[i]) IN
         ScanLoop([todos EXCEPT ![i] = s.todo], i + 1, n, now, environ, oks,
                  [todos |-> todos,
                   raised |-> s.exc,
                   updated |-> acc.updated \/ s.dispatched,
                   dispatched |-> acc.dispatched \cup (IF s.dispatched THEN {i} ELSE {}),
                   succeeded |-> acc.succeeded \cup (IF s.succeeded THEN {i} ELSE {})])

ScanStart ==
    [todos |-> <<>>, raised |-> FALSE, updated |-> FALSE, dispatched |-> {},
     succeeded |-> {}]

\* load_json(TODOS_PATH, []): the default when the text is no JSON.
LoadTodos(doc) == IF doc.shape = "invalid" THEN <<>> ELSE doc.items

\* run_todo_scan: the document afterwards, whether the call raised, and the
\* positions whose action was dispatched and whose dispatch returned.
run_todo_scan(doc, now, environ, oks) ==
    IF doc.shape = "nonlist"
    THEN [doc |-> doc, raised |-> TRUE, dispatched |-> {}, succeeded |-> {}]
    ELSE LET todos == LoadTodos(doc)
             r == ScanLoop(todos, 1, Len(todos), now, environ, oks, ScanStart)
         IN  [doc |-> IF ~r.raised /\ r.updated THEN ListDoc(r.todos) ELSE doc,
              raised |-> r.raised,
              dispatched |-> r.dispatched,
              succeeded |-> r.succeeded]

----------------------------------------------------------------------------
(* Tasks and create_todo *)

\* The "todo" template of a todo_create task: an object, a value that is no
\* object, or absent (the code then takes {}).
TodoConfig(title, action, due_at, due_offset_minutes) ==
    [shape |-> "obj", title |-> title, action |-> action, due_at |-> due_at,
     due_offset_minutes |-> due_offset_minutes]
NoTodoConfig ==
    [shape |-> "absent", title |-> "todo", action |-> NoAction,
     due_at |-> <<"missing">>, due_offset_minutes |-> <<"int", 0>>]
BadTodoConfig == [NoTodoConfig EXCEPT !.shape = "notobj"]

\* Ids are tuples: a task id is <<name, n>>, where the name "schedule" marks
\* the ids that add_schedule gives; add_todo gives <<"todo", stamp>> and
\* create_todo gives the task's id (its prefix) followed by the stamp.
Task(id, type, enabled, schedule, todo, repo_path) ==
    [id |-> id, type |-> type, enabled |-> enabled, schedule |-> schedule,
     todo |-> todo, repo_path |-> repo_path]

\* now.strftime("%Y%m%d%H%M%S"): the instant, to the second.
Stamp(now) == now

\* create_todo as it would be if it wrote a list of the new item alone.
create_todo_Alone(task, now, doc) ==
    LET todo_config == task.todo IN
    IF todo_config.shape = "notobj" THEN [raised |-> TRUE, doc |-> doc]
    ELSE IF todo_config.due_offset_minutes[1] # "int" THEN [raised |-> TRUE, doc |-> doc]
    ELSE LET action == IF todo_config.action.shape = "absent" THEN Note
                       ELSE todo_config.action
             due_at == IF todo_config.due_at[1] = "missing"
                       THEN <<"dt", now + todo_config.due_offset_minutes[2]>>
                       ELSE todo_config.due_at
             todo_item == Todo(task.id \o <<Stamp(now)>>, todo_config.title, due_at,
                               "open", action)
         IN  [raised |-> FALSE, doc |-> ListDoc(<<todo_item>>)]

\* create_todo as it would be if the list with the new item were not written
\* before the call returns.
create_todo_Unsaved(task, now, doc) ==
    [raised |-> \/ task.todo.shape = "notobj"
                \/ task.todo.due_offset_minutes[1] # "int",
     doc |-> doc]

create_todo(task, now, doc) ==
    LET todo_config == task.todo IN
    IF todo_config.shape = "notobj" THEN [raised |-> TRUE, doc |-> doc]
    ELSE IF todo_config.due_offset_minutes[1] # "int" THEN [raised |-> TRUE, doc |-> doc]
    ELSE LET action == IF todo_config.action.shape = "absent" THEN Note
                       ELSE todo_config.action
             due_at == IF todo_config.due_at[1] = "missing"
                       THEN <<"dt", now + todo_config.due_offset_minutes[2]>>
                       ELSE todo_config.due_at
             todo_item == Todo(task.id \o <<Stamp(now)>>, todo_config.title, due_at,
                               "open", action)
             todos == IF doc.shape = "list" THEN doc.items ELSE <<>>
         IN  [raised |-> FALSE, doc |-> ListDoc(Append(todos, todo_item))]

----------------------------------------------------------------------------
(* The front end's operations on the todo document (todo/actions.py) *)

ALLOWED_ACTIONS == {"note", "xingyun_tag_check", "changan_workorder_check", "shell"}

\* ensure_todos, ensure_tasks: the list, or [] for anything else.
ensure_todos(doc) == IF doc.shape = "list" THEN doc.items ELSE <<>>
ensure_tasks(doc) == IF doc.shape = "list" THEN doc.items ELSE <<>>

\* _resolve_repo_path_source: the argument, else the variable, else config.json.
ResolveRepoPathSource(repo_path, env_value, config_value) ==
    IF repo_path # <<>> THEN repo_path
    ELSE IF env_value # <<>> THEN env_value
    ELSE config_value

\* validate_action_requirements: TRUE when it returns an error message.
validate_action_requirements(action_type, repo_path, command, environ) ==
    \/ /\ action_type = "xingyun_tag_check"
       /\ ResolveRepoPathSource(repo_path, environ.XINGYUN_REPO_PATH,
                                get_repo_path_from_config(environ, action_type)) = <<>>
    \/ /\ action_type = "changan_workorder_check"
       /\ ResolveRepoPathSource(repo_path, environ.CHANGAN_REPO_PATH,
                                get_repo_path_from_config(environ, action_type)) = <<>>
    \/ /\ action_type = "shell"
       /\ command = <<>>

\* normalize_due_at: <<>> on an error, else the time to the minute.
normalize_due_at(value, now) ==
    IF value[1] # "dt" THEN <<>>
    ELSE IF value[2] < now - 1 THEN <<>>
    ELSE <<value>>

build_action(action_type, repo_path, command) ==
    CASE action_type \in {"xingyun_tag_check", "changan_workorder_check"} ->
            Action(action_type, repo_path, <<>>)
      [] action_type = "shell" -> Action(action_type, <<>>, command)
      [] OTHER -> Action(action_type, <<>>, <<>>)

\* What a front-end operation returns: whether it reports an error or raises
\* (nothing is saved then), and the two documents afterwards.
OpResult(error, todos, tasks) == [error |-> error, todos |-> todos, tasks |-> tasks]

\* add_todo as it would be if it wrote a list of its own instead of the list
\* that it loaded.
add_todo_Fresh(title, due_at, action_type, repo_path, command, now, doc, tasksdoc, environ) ==
    IF action_type \notin ALLOWED_ACTIONS THEN OpResult(TRUE, doc, tasksdoc)
    ELSE IF validate_action_requirements(action_type, repo_path, command, environ)
    THEN OpResult(TRUE, doc, tasksdoc)
    ELSE LET due_value == normalize_due_at(due_at, now) IN
         IF due_value = <<>> THEN OpResult(TRUE, doc, tasksdoc)
         ELSE LET todo_item == Todo(<<"todo", Stamp(now)>>, title, due_value[1], "open",
                                    build_action(action_type, repo_path, command))
              IN  OpResult(FALSE, ListDoc(<<todo_item>>), tasksdoc)

add_todo(title, due_at, action_type, repo_path, command, now, doc, tasksdoc, environ) ==
    IF action_type \notin ALLOWED_ACTIONS THEN OpResult(TRUE, doc, tasksdoc)
    ELSE IF validate_action_requirements(action_type, repo_path, command, environ)
    THEN OpResult(TRUE, doc, tasksdoc)
    ELSE LET due_value == normalize_due_at(due_at, now) IN
         IF due_value = <<>> THEN OpResult(TRUE, doc, tasksdoc)
         ELSE LET todo_item == Todo(<<"todo", Stamp(now)>>, title, due_value[1], "open",
                                    build_action(action_type, repo_path, command))
              IN  OpResult(FALSE, ListDoc(Append(ensure_todos(doc), todo_item)), tasksdoc)

\* normalize_time: <<>> on an error, else the time as HH:MM.
normalize_time(value) ==
    IF value[1] = "hhmm" /\ value[2] < DayLen THEN <<value>> ELSE <<>>

VALID_SCHEDULE_KINDS == {"daily", "weekly", "interval"}

\* create_schedule_task: a todo_create task, named after the second of its
\* creation, is appended to the task document.
create_schedule_task(title, schedule, action, now, tasksdoc) ==
    LET task_item == Task(<<"schedule", Stamp(now)>>, "todo_create", TRUE, schedule,
                          TodoConfig(title, action, <<"missing">>, <<"int", 0>>), <<>>)
    IN  ListDoc(Append(ensure_tasks(tasksdoc), task_item))

\* The schedule that add_schedule would build if an interval of 0 minutes were
\* taken.
BuildSchedule_ZeroMinutes(schedule_kind, time, day_of_week, interval_minutes) ==
    CASE schedule_kind = "daily" ->
            IF time[1] = "missing" \/ normalize_time(time) = <<>> THEN <<>>
            ELSE <<Schedule("daily", <<"missing">>, normalize_time(time)[1], "")>>
      [] schedule_kind = "weekly" ->
            IF day_of_week = "" \/ time[1] = "missing" THEN <<>>
            ELSE IF Lower(day_of_week) \notin DOMAIN WEEKDAY_MAP THEN <<>>
            ELSE IF normalize_time(time) = <<>> THEN <<>>
            ELSE <<Schedule("weekly", <<"missing">>, normalize_time(time)[1],
                            Lower(day_of_week))>>
      [] schedule_kind = "interval" ->
            IF interval_minutes[1] # "int" THEN <<>>
            ELSE IF interval_minutes[2] < 0 THEN <<>>
            ELSE <<Schedule("interval", interval_minutes, <<"missing">>, "")>>
      [] OTHER -> <<>>

\* The schedule that add_schedule builds from its arguments, <<>> when it
\* returns an error instead.  Only the fields of the kind are set: a "minutes"
\* or "time" that is <<"missing">> and a "day_of_week" that is "" are absent.
BuildSchedule(schedule_kind, time, day_of_week, interval_minutes) ==
    CASE schedule_kind = "daily" ->
            IF time[1] = "missing" \/ normalize_time(time) = <<>> THEN <<>>
            ELSE <<Schedule("daily", <<"missing">>, normalize_time(time)[1], "")>>
      [] schedule_kind = "weekly" ->
            IF day_of_week = "" \/ time[1] = "missing" THEN <<>>
            ELSE IF Lower(day_of_week) \notin DOMAIN WEEKDAY_MAP THEN <<>>
            ELSE IF normalize_time(time) = <<>> THEN <<>>
            ELSE <<Schedule("weekly", <<"missing">>, normalize_time(time)[1],
                            Lower(day_of_week))>>
      [] schedule_kind = "interval" ->
            IF interval_minutes[1] # "int" THEN <<>>
            ELSE IF interval_minutes[2] <= 0 THEN <<>>
            ELSE <<Schedule("interval", interval_minutes, <<"missing">>, "")>>
      [] OTHER -> <<>>

add_schedule(title, schedule_kind, time, day_of_week, interval_minutes, action_type, repo_path, command, now, doc, tasksdoc, environ) ==
    IF action_type \notin ALLOWED_ACTIONS THEN OpResult(TRUE, doc, tasksdoc)
    ELSE IF schedule_kind \notin VALID_SCHEDULE_KINDS THEN OpResult(TRUE, doc, tasksdoc)
    ELSE IF validate_action_requirements(action_type, repo_path, command, environ)
    THEN OpResult(TRUE, doc, tasksdoc)
    ELSE LET schedule == BuildSchedule(schedule_kind, time, day_of_week, interval_minutes)
         IN  IF schedule = <<>> THEN OpResult(TRUE, doc, tasksdoc)
             ELSE OpResult(FALSE, doc,
                           create_schedule_task(title, schedule[1],
                               build_action(action_type, repo_path, command), now,
                               tasksdoc))

\* _find_todo: the index of the item, or 0 with an error.
FirstIndex(hits) ==
    IF hits = {} THEN 0 ELSE CHOOSE i \in hits : \A j \in hits : i <= j

\* todo.get on an element that is no object raises AttributeError: the search
\* by id raises when it meets such an element before a match.
RaisesBefore(todos, idx) ==
    \E i \in 1..Len(todos) : todos[i].kind # "obj" /\ (idx = 0 \/ i < idx)

\* The index found, 0 for "not found" (or an ambiguous title), -1 when the
\* search raised.
FindTodo(todos, todo_id, title) ==
    IF todo_id # <<>>
    THEN LET idx == FirstIndex({i \in 1..Len(todos) :
                                      todos[i].kind = "obj" /\ todos[i].id = todo_id[1]})
         IN  IF RaisesBefore(todos, idx) THEN -1 ELSE idx
    ELSE IF title # <<>>
    THEN LET hits == {i \in 1..Len(todos) :
                        todos[i].kind = "obj" /\ todos[i].title = title[1]}
         IN  IF RaisesBefore(todos, 0) THEN -1
             ELSE IF Cardinality(hits) = 1 THEN CHOOSE i \in hits : TRUE ELSE 0
    ELSE 0

\* update_todo as it would be if the new title were written to the document
\* before the new due time is looked at.
update_todo_SaveTitleFirst(todo_id, title, new_title, new_due_at, new_action_type, repo_path, command, now, doc, tasksdoc, environ) ==
    LET todos == ensure_todos(doc)
        idx == FindTodo(todos, todo_id, title)
    IN
    IF idx <= 0 THEN OpResult(TRUE, doc, tasksdoc)
    ELSE IF todos[idx].status = "done" THEN OpResult(TRUE, doc, tasksdoc)
    ELSE IF /\ new_action_type = <<>>
            /\ repo_path # <<>> \/ command # <<>>
            /\ todos[idx].action.shape = "notobj"
    THEN OpResult(TRUE, doc, tasksdoc)
    ELSE
    LET todo1 == IF new_title # <<>> THEN [todos[idx] EXCEPT !.title = new_title[1]]
                 ELSE todos[idx]
        due_value == IF new_due_at # <<>> THEN normalize_due_at(new_due_at[1], now)
                     ELSE <<>>
        todo2 == IF due_value # <<>> THEN [todo1 EXCEPT !.due_at = due_value[1]]
                 ELSE todo1
        current_type == IF todo2.action.shape = "obj" THEN todo2.action.type ELSE "note"
        action_type == IF new_action_type # <<>> THEN new_action_type[1] ELSE current_type
        rebuild == new_action_type # <<>> \/ repo_path # <<>> \/ command # <<>>
        todo3 == IF rebuild
                 THEN [todo2 EXCEPT !.action = build_action(action_type, repo_path, command)]
                 ELSE todo2
    IN
    IF new_due_at # <<>> /\ due_value = <<>>
    THEN OpResult(TRUE, ListDoc([todos EXCEPT ![idx] = todo1]), tasksdoc)
    ELSE IF new_action_type # <<>> /\ new_action_type[1] \notin ALLOWED_ACTIONS
    THEN OpResult(TRUE, doc, tasksdoc)
    ELSE IF rebuild /\ validate_action_requirements(action_type, repo_path, command, environ)
    THEN OpResult(TRUE, doc, tasksdoc)
    ELSE IF new_title = <<>> /\ new_due_at = <<>> /\ ~rebuild
    THEN OpResult(TRUE, doc, tasksdoc)
    ELSE OpResult(FALSE, ListDoc([todos EXCEPT ![idx] = todo3]), tasksdoc)

\* update_todo with a new title, a new due time and a new action type, each
\* <<>> when not given.
update_todo(todo_id, title, new_title, new_due_at, new_action_type, repo_path, command, now, doc, tasksdoc, environ) ==
    LET todos == ensure_todos(doc)
        idx == FindTodo(todos, todo_id, title)
    IN
    IF idx <= 0 THEN OpResult(TRUE, doc, tasksdoc)
    ELSE IF todos[idx].status = "done" THEN OpResult(TRUE, doc, tasksdoc)
    ELSE IF /\ new_action_type = <<>>
            /\ repo_path # <<>> \/ command # <<>>
            /\ todos[idx].action.shape = "notobj"
    THEN OpResult(TRUE, doc, tasksdoc)
    ELSE
    LET todo1 == IF new_title # <<>> THEN [todos[idx] EXCEPT !.title = new_title[1]]
                 ELSE todos[idx]
        due_value == IF new_due_at # <<>> THEN normalize_due_at(new_due_at[1], now)
                     ELSE <<>>
        todo2 == IF due_value # <<>> THEN [todo1 EXCEPT !.due_at = due_value[1]]
                 ELSE todo1
        current_type == IF todo2.action.shape = "obj" THEN todo2.action.type ELSE "note"
        action_type == IF new_action_type # <<>> THEN new_action_type[1] ELSE current_type
        rebuild == new_action_type # <<>> \/ repo_path # <<>> \/ command # <<>>
        todo3 == IF rebuild
                 THEN [todo2 EXCEPT !.action = build_action(action_type, repo_path, command)]
                 ELSE todo2
    IN
    IF new_due_at # <<>> /\ due_value = <<>> THEN OpResult(TRUE, doc, tasksdoc)
    ELSE IF new_action_type # <<>> /\ new_action_type[1] \notin ALLOWED_ACTIONS
    THEN OpResult(TRUE, doc, tasksdoc)
    ELSE IF rebuild /\ validate_action_requirements(action_type, repo_path, command, environ)
    THEN OpResult(TRUE, doc, tasksdoc)
    ELSE IF new_title = <<>> /\ new_due_at = <<>> /\ ~rebuild
    THEN OpResult(TRUE, doc, tasksdoc)
    ELSE OpResult(FALSE, ListDoc([todos EXCEPT ![idx] = todo3]), tasksdoc)

\* CloseOne as it would be without the check of the status: a todo that is
\* done is closed again.
CloseOne_Reclose(st, item_id, close_note, now) ==
    IF item_id[1] = "schedule"
    THEN LET idx == FirstIndex({i \in 1..Len(st.tasks) : st.tasks[i].id = item_id}) IN
         IF idx = 0 \/ ~st.tasks[idx].enabled THEN st
         ELSE [st EXCEPT !.tasks[idx].enabled = FALSE, !.closed = TRUE]
    ELSE LET idx == FindTodo(st.todos, <<item_id>>, <<>>) IN
         IF idx = -1 THEN [st EXCEPT !.raised = TRUE]
         ELSE IF idx = 0 THEN st
         ELSE [st EXCEPT !.todos[idx].status = "done",
                         !.todos[idx].done_at = <<now>>,
                         !.todos[idx].result = IF close_note # <<>> THEN close_note ELSE @,
                         !.closed = TRUE]

\* The loop of close_todo over a list of ids: the two lists in memory,
\* whether any id was closed and whether the search raised.
CloseOne(st, item_id, close_note, now) ==
    IF item_id[1] = "schedule"
    THEN LET idx == FirstIndex({i \in 1..Len(st.tasks) : st.tasks[i].id = item_id}) IN
         IF idx = 0 \/ ~st.tasks[idx].enabled THEN st
         ELSE [st EXCEPT !.tasks[idx].enabled = FALSE, !.closed = TRUE]
    ELSE LET idx == FindTodo(st.todos, <<item_id>>, <<>>) IN
         IF idx = -1 THEN [st EXCEPT !.raised = TRUE]
         ELSE IF idx = 0 \/ st.todos[idx].status = "done" THEN st
         ELSE [st EXCEPT !.todos[idx].status = "done",
                         !.todos[idx].done_at = <<now>>,
                         !.todos[idx].result = IF close_note # <<>> THEN close_note ELSE @,
                         !.closed = TRUE]

RECURSIVE CloseLoop(_, _, _, _)
CloseLoop(st, id_list, close_note, now) ==
    IF id_list = <<>> \/ st.raised THEN st
    ELSE CloseLoop(CloseOne(st, Head(id_list), close_note, now), Tail(id_list),
                   close_note, now)

\* close_todo by a list of ids, or by a title when the list is empty.
close_todo(id_list, title, close_note, now, doc, tasksdoc) ==
    LET todos == ensure_todos(doc)
        tasks == ensure_tasks(tasksdoc)
    IN
    IF id_list # <<>>
    THEN LET st == CloseLoop([todos |-> todos, tasks |-> tasks, closed |-> FALSE,
                                        raised |-> FALSE],
                             id_list, close_note, now)
         IN  IF st.closed /\ ~st.raised THEN OpResult(FALSE, ListDoc(st.todos), ListDoc(st.tasks))
             ELSE OpResult(TRUE, doc, tasksdoc)
    ELSE IF title # <<>>
    THEN LET todo_matches == {i \in 1..Len(todos) :
                                todos[i].kind = "obj" /\ todos[i].title = title[1]}
             schedule_matches == {i \in 1..Len(tasks) :
                                    tasks[i].type = "todo_create"
                                    /\ tasks[i].todo.shape = "obj"
                                    /\ tasks[i].todo.title = title[1]}
         IN  IF RaisesBefore(todos, 0) THEN OpResult(TRUE, doc, tasksdoc)
             ELSE IF Cardinality(todo_matches) + Cardinality(schedule_matches) # 1
             THEN OpResult(TRUE, doc, tasksdoc)
             ELSE IF todo_matches # {}
             THEN LET i == CHOOSE i \in todo_matches : TRUE IN
                  IF todos[i].status = "done" THEN OpResult(TRUE, doc, tasksdoc)
                  ELSE OpResult(FALSE,
                                ListDoc([todos EXCEPT ![i].status = "done",
                                                      ![i].done_at = <<now>>,
                                                      ![i].result = IF close_note # <<>>
                                                                    THEN close_note ELSE @]),
                                tasksdoc)
             ELSE LET i == CHOOSE i \in schedule_matches : TRUE IN
                  IF ~tasks[i].enabled THEN OpResult(TRUE, doc, tasksdoc)
                  ELSE OpResult(FALSE, doc, ListDoc([tasks EXCEPT ![i].enabled = FALSE]))
    ELSE OpResult(TRUE, doc, tasksdoc)

----------------------------------------------------------------------------
(* The scheduler: run_task and the loop of run_cycle *)

\* What an operation did: its name, whether it raised, and the positions of
\* the todo document whose action was dispatched and whose dispatch returned.
Op(name, raised, dispatched, succeeded) ==
    [op |-> name, raised |-> raised, dispatched |-> dispatched,
     succeeded |-> succeeded]

\* The tasks of the model.  CheckTask runs the Xingyun check in a repository
\* of its own, and fails when the script does; BrokenTask has a schedule that
\* is no object.
CreateTask ==
    Task(<<"schedule", 0>>, "todo_create", TRUE,
         Schedule("daily", <<"nonnum">>, <<"hhmm", 0>>, ""),
         TodoConfig("a", Shell, <<"missing">>, <<"int", 0>>), <<>>)
CheckTask ==
    Task(<<"check", 0>>, "xingyun_tag_check", TRUE,
         Schedule("daily", <<"nonnum">>, <<"hhmm", 1>>, ""), NoTodoConfig, <<"repo">>)
ScanTask ==
    Task(<<"scan", 0>>, "todo_scan", TRUE,
         Schedule("interval", <<"int", 2>>, <<"missing">>, ""), NoTodoConfig, <<>>)
DisabledTask ==
    Task(<<"off", 0>>, "todo_scan", FALSE,
         Schedule("daily", <<"nonnum">>, <<"hhmm", 1>>, ""), NoTodoConfig, <<>>)
BrokenTask ==
    Task(<<"broken", 0>>, "todo_scan", TRUE, BadSchedule, NoTodoConfig, <<>>)

\* A task of the given type that is due once a minute has gone by, and a scan
\* that is.
TypedTask(type) ==
    Task(<<"typed", 0>>, type, TRUE,
         Schedule("interval", <<"int", 1>>, <<"missing">>, ""), NoTodoConfig, <<>>)
MinuteScan ==
    Task(<<"scan", 0>>, "todo_scan", TRUE,
         Schedule("interval", <<"int", 1>>, <<"missing">>, ""), NoTodoConfig, <<>>)

TaskPool == <<CheckTask, CreateTask, ScanTask, DisabledTask, BrokenTask>>
TaskIds == {TaskPool[i].id : i \in 1..Len(TaskPool)} \cup {TypedTask("").id}

\* The run-state document: an object from task ids to entries (Absent for an
\* id without entry), valid JSON of another shape, or text that is no JSON.
NoEntries == [id \in TaskIds |-> Absent]
StateObj(entries) == [shape |-> "obj", entries |-> entries]
NonObjState == [shape |-> "notobj", entries |-> NoEntries]
InvalidState == [shape |-> "invalid", entries |-> NoEntries]

load_tasks(doc) == IF doc.shape = "list" THEN doc.items ELSE <<>>
load_state(doc) == IF doc.shape = "obj" THEN doc.entries ELSE NoEntries

\* run_task: the todo document afterwards, whether the call raised, and what
\* a scan dispatched.  oks: the exit of the subprocess of each todo; ok: the
\* exit of the task's own subprocess.
run_task(task, now, doc, environ, oks, ok) ==
    CASE task.type = "todo_scan" -> run_todo_scan(doc, now, environ, oks)
      [] task.type = "todo_create" ->
            LET r == create_todo(task, now, doc) IN
            [doc |-> r.doc, raised |-> r.raised, dispatched |-> {}, succeeded |-> {}]
      [] task.type = "xingyun_tag_check" ->
            [doc |-> doc, raised |-> run_xingyun_tag_check(task, environ, ok).raised,
             dispatched |-> {}, succeeded |-> {}]
      [] task.type = "changan_workorder_check" ->
            [doc |-> doc, raised |-> run_changan_workorder_check(task, environ, ok).raised,
             dispatched |-> {}, succeeded |-> {}]
      [] OTHER -> [doc |-> doc, raised |-> TRUE, dispatched |-> {}, succeeded |-> {}]

\* What one iteration of the loop of run_cycle leaves: whether an exception
\* left run_cycle, the run state in memory and whether the iteration set
\* state_changed, the todo document, the lines appended to the log, and
\* skip_notices.
Iteration(escaped, state, changed, doc, lines, notices, op) ==
    [escaped |-> escaped, state |-> state, changed |-> changed, doc |-> doc,
     lines |-> lines, notices |-> notices, op |-> op]

Notice(task_id, now, reason) == <<task_id, DayOf(now), reason>>

\* The branch of the loop body that runs a due task, as it would be without
\* try and except: the exception of run_task leaves run_cycle.
RunDue_NoTry(task, now, state, doc, environ, notices, oks, ok) ==
    LET r == run_task(task, now, doc, environ, oks, ok) IN
    IF ~r.raised
    THEN Iteration(FALSE, [state EXCEPT ![task.id] = Aware(now)], TRUE, r.doc,
                   {<<"done", task.id>>}, notices,
                   Op(task.type, FALSE, r.dispatched, r.succeeded))
    ELSE Iteration(TRUE, state, FALSE, r.doc, {}, notices,
                   Op(task.type, TRUE, r.dispatched, r.succeeded))

\* What follows the call of run_task as it would be if the run were not
\* recorded in the run state.
AfterRun_NoRecord(task, now, state, notices, r) ==
    IF ~r.raised
    THEN Iteration(FALSE, state, TRUE, r.doc, {<<"done", task.id>>}, notices,
                   Op(task.type, FALSE, r.dispatched, r.succeeded))
    ELSE Iteration(FALSE, state, FALSE, r.doc, {<<"failed", task.id>>}, notices,
                   Op(task.type, TRUE, r.dispatched, r.succeeded))

\* What follows the call of run_task inside the try: r is what the call
\* left.  The run is recorded when it returned, the exception is logged when
\* it raised.
AfterRun(task, now, state, notices, r) ==
    IF ~r.raised
    THEN Iteration(FALSE, [state EXCEPT ![task.id] = Aware(now)], TRUE, r.doc,
                   {<<"done", task.id>>}, notices,
                   Op(task.type, FALSE, r.dispatched, r.succeeded))
    ELSE Iteration(FALSE, state, FALSE, r.doc, {<<"failed", task.id>>}, notices,
                   Op(task.type, TRUE, r.dispatched, r.succeeded))

\* The branch of the loop body that runs a due task: try run_task, record
\* the run on success, log the exception otherwise.
RunDue(task, now, state, doc, environ, notices, oks, ok) ==
    AfterRun(task, now, state, notices, run_task(task, now, doc, environ, oks, ok))

\* The body of the loop of run_cycle for an enabled task, from the answer e
\* of evaluate_task on.
AfterEvaluate(task, now, state, doc, environ, notices, oks, ok, e) ==
    IF e.raised
    THEN Iteration(TRUE, state, FALSE, doc, {}, notices,
                   Op("evaluate_task", TRUE, {}, {}))
    ELSE IF e.due
    THEN RunDue(task, now, state, doc, environ, notices, oks, ok)
    ELSE IF e.reason = "already ran today"
    THEN LET notice_key == Notice(task.id, now, e.reason) IN
         Iteration(FALSE, state, FALSE, doc,
                   IF notice_key \in notices THEN {} ELSE {<<"ran today", task.id>>},
                   notices \cup {notice_key}, Op("skip", FALSE, {}, {}))
    ELSE Iteration(FALSE, state, FALSE, doc, {}, notices,
                   Op("skip", FALSE, {}, {}))

\* The body of the loop as it would be if the skip of a disabled task were
\* logged at every tick.
LoopBody_AlwaysLog(task, now, state, doc, environ, notices, oks, ok) ==
    IF ~task.enabled
    THEN LET notice_key == Notice(task.id, now, "disabled") IN
         Iteration(FALSE, state, FALSE, doc, {<<"disabled", task.id>>},
                   notices \cup {notice_key}, Op("skip", FALSE, {}, {}))
    ELSE AfterEvaluate(task, now, state, doc, environ, notices, oks, ok,
                       evaluate_task(task, now, state[task.id]))

\* The body of the loop of run_cycle for one task.
LoopBody(task, now, state, doc, environ, notices, oks, ok) ==
    IF ~task.enabled
    THEN LET notice_key == Notice(task.id, now, "disabled") IN
         Iteration(FALSE, state, FALSE, doc,
                   IF notice_key \in notices THEN {} ELSE {<<"disabled", task.id>>},
                   notices \cup {notice_key}, Op("skip", FALSE, {}, {}))
    ELSE AfterEvaluate(task, now, state, doc, environ, notices, oks, ok,
                        evaluate_task(task, now, state[task.id]))

----------------------------------------------------------------------------
(* The guard of the tool calls (todo/guards.py) and the session memory *)
(* (todo/memory.py)                                                     *)

\* The entry of _MEMORY under the key of the session: pending_action (the ids
\* of a close that waits for its confirmation) and last_candidates, each <<>>
\* when not set.
Session(pending, candidates) == [pending_action |-> pending, last_candidates |-> candidates]
NoSession == Session(<<>>, <<>>)

\* A tool call: todo_id is the list of the ids that ID_PATTERN finds in the
\* argument, title is <<>> when not given.  A user query: the ids that
\* ID_PATTERN finds in it, whether it holds a word of confirmation, whether it
\* refers to "these" ids.
ToolCall(tool_name, todo_id, title) ==
    [tool_name |-> tool_name, todo_id |-> todo_id, title |-> title]
Query(ids, confirm, these) == [ids |-> ids, confirm |-> confirm, these |-> these]

\* What guard_tool_call returns, and the entry of the session afterwards:
\* the call to execute, or an error.
LetThrough(tool_call, sess) == [call |-> <<tool_call>>, session |-> sess]
Rejected(sess) == [call |-> <<>>, session |-> sess]

\* _collect_title_matches: the ids of the todos and of the todo_create tasks
\* of the title.
TitleMatches(title, todos, tasks) ==
    LET OfTodo(todo) == todo.kind = "obj" /\ todo.title = title
        OfTask(task) ==
            task.type = "todo_create" /\ task.todo.shape = "obj" /\ task.todo.title = title
        todo_hits == SelectSeq(todos, OfTodo)
        task_hits == SelectSeq(tasks, OfTask)
    IN  [todo_ids |-> [i \in 1..Len(todo_hits) |-> todo_hits[i].id],
         schedule_ids |-> [i \in 1..Len(task_hits) |-> task_hits[i].id]]

\* guard_tool_call for update_todo and close_todo (l.161-201); the calls of
\* the other tools of these lines' concern pass (l.203).
guard_tool_call(tool_call, query, sess, todos, tasks) ==
    IF tool_call.tool_name \notin {"update_todo", "close_todo"}
    THEN LetThrough(tool_call, sess)
    ELSE
    LET ids == IF tool_call.todo_id # <<>> THEN tool_call.todo_id ELSE query.ids
        m == TitleMatches(tool_call.title[1], todos, tasks)
        close == tool_call.tool_name = "close_todo"
    IN
    IF close /\ ids = <<>> /\ query.confirm /\ sess.pending_action # <<>>
    THEN LetThrough([tool_call EXCEPT !.todo_id = sess.pending_action],
                    [sess EXCEPT !.pending_action = <<>>])
    ELSE IF ids = <<>> /\ query.these
    THEN IF sess.last_candidates = <<>> THEN Rejected(sess)
         ELSE LetThrough([tool_call EXCEPT !.todo_id = sess.last_candidates], sess)
    ELSE IF ids # <<>>
    THEN IF close /\ Len(ids) > 1 /\ ~query.confirm
         THEN Rejected([sess EXCEPT !.pending_action = ids])
         ELSE LetThrough(tool_call, sess)
    ELSE IF tool_call.title = <<>> THEN Rejected(sess)
    ELSE IF m.todo_ids = <<>> /\ m.schedule_ids = <<>> THEN Rejected(sess)
    ELSE IF ~close /\ m.schedule_ids # <<>> THEN Rejected(sess)
    ELSE IF Len(m.todo_ids) + Len(m.schedule_ids) > 1
    THEN Rejected([sess EXCEPT !.last_candidates = m.todo_ids \o m.schedule_ids])
    ELSE LetThrough(tool_call, sess)

\* The last call of the guard: how many there were, what came in, what was
\* let through, and whether the tool has run.
NoGuard ==
    [n |-> 0, tool_call |-> ToolCall("none", <<>>, <<>>), query |-> Query(<<>>, FALSE, FALSE),
     call |-> <<>>, ran |-> FALSE]

----------------------------------------------------------------------------
(* The router of the chat: master_execute (todo/router.py) *)

_MAX_ITERS == 10

\* The locals of master_execute: where it is, the iterations of its loop that
\* have begun, current_query (the query of the user or a follow-up query of a
\* tool result), current_payload (<<>> for None, else the message of the
\* status payload), the calls of todo_chat_agent of the last iteration (the
\* query of each and what it came after), and the output of the response.
Route(at, iters, current_query, current_payload, chats, output) ==
    [at |-> at, iters |-> iters, current_query |-> current_query,
     current_payload |-> current_payload, chats |-> chats, output |-> output]
NoRoute == Route("none", 0, "user", <<>>, <<>>, <<>>)

\* The output of todo_chat_agent: a status payload with its message, or a
\* text that is none (parsed is FALSE); the message and the text may be empty.
AgentOutput(parsed, text) == [parsed |-> parsed, text |-> text]

\* What _decide_next_action returns: <<>> for None (the call failed, or the
\* answer has no action "return" or "call"), else the decision; query is the
\* "query" of its arguments, <<>> when they have none.
Decision(action, message, callee, query) ==
    <<[action |-> action, message |-> message, callee |-> callee, query |-> query]>>

\* A call of todo_chat_agent: its query, and what it came after.
ChatCall(query, after) == [query |-> query, after |-> after]

Returned(r, chats, output) ==
    Route("done", r.iters + 1, r.current_query, r.current_payload, chats, <<output>>)

\* The message of the payload, or the fallback text.
MessageOr(payload) == IF payload[1] # "" THEN payload[1] ELSE "done"

\* The rest of an iteration, from the decision on, with a payload at hand.
AfterPayload(r, payload, chats, decision, second) ==
    IF decision = <<>> THEN Returned(r, chats, MessageOr(payload))
    ELSE IF decision[1].action = "return"
    THEN Returned(r, chats,
                  IF decision[1].message # "" THEN decision[1].message
                  ELSE MessageOr(payload))
    ELSE IF decision[1].callee = "" THEN Returned(r, chats, MessageOr(payload))
    ELSE IF decision[1].callee = "tool_agent"
    THEN Route("loop", r.iters + 1, "followup", <<>>, chats, <<>>)
    ELSE IF decision[1].callee = "todo_chat_agent"
    THEN LET query == IF decision[1].query # <<>> THEN "decider" ELSE r.current_query
             all == Append(chats, ChatCall(query, "decision"))
         IN  IF ~second.parsed THEN Returned(r, all, second.text)
             ELSE Route("loop", r.iters + 1, r.current_query, <<second.text>>, all, <<>>)
    ELSE Route("loop", r.iters + 1, r.current_query, payload, chats, <<>>)

\* One iteration of the loop of master_execute (l.113-168): first is the
\* output of the call of l.115, second that of the call of l.160.
master_iteration(r, first, decision, second) ==
    IF r.current_payload = <<>>
    THEN LET chats == <<ChatCall(r.current_query,
                                 IF r.current_query = "followup" THEN "tool" ELSE "start")>>
         IN  IF ~first.parsed THEN Returned(r, chats, first.text)
             ELSE AfterPayload(r, <<first.text>>, chats, decision, second)
    ELSE AfterPayload(r, r.current_payload, <<>>, decision, second)

----------------------------------------------------------------------------
(* What each specification leaves alone *)

NotCalled == [raised |-> FALSE, due |-> FALSE, reason |-> "not called"]
NoOp == [op |-> "none", raised |-> FALSE, dispatched |-> {}, succeeded |-> {}]

EvalIdle ==
    /\ evTask = [id |-> <<"t", 1>>, schedule |-> NoSchedule]
    /\ evEntry = Absent
    /\ evNow = 0
    /\ evOut = NotCalled

StoreIdle ==
    /\ clock = 0
    /\ env = Environ(<<>>, <<>>, NoConfig)
    /\ tasksDoc = ListDoc(<<>>)
    /\ todosDoc = ListDoc(<<>>)

TodoIdle == lastOp = NoOp /\ opCount = 0

\* No operation is between its load of the todo document and its write.
MemIdle == scanning = <<>> /\ calling = <<>>

\* No chat is under way.
ChatIdle == session = NoSession /\ guarded = NoGuard /\ route = NoRoute

\* The locals of run_cycle when no tick is under way.
NoCycle == [now |-> 0, tasks |-> <<>>, state |-> NoEntries, state_changed |-> FALSE,
            i |-> 0]
NoRuns == [id \in TaskIds |-> 0]

SchedIdle ==
    /\ stateDoc = StateObj(NoEntries)
    /\ heartbeat = <<>>
    /\ logged = {}
    /\ pc = "idle"
    /\ cycle = NoCycle
    /\ skip_notices = {}
    /\ restarts = 0
    /\ once = FALSE
    /\ invoked = NoRuns
    /\ completed = NoRuns
    /\ ranOnce = {}
    /\ ranTwice = {}

----------------------------------------------------------------------------
(* SpecEval: evaluate_task applied to every task record and run state *)

\* The schedules handed to evaluate_task.  A field that the branch of a kind
\* never reads takes one value: "minutes" is read for interval alone,
\* "day_of_week" for weekly alone, "time" for every kind but interval.
DayFields == DOMAIN WEEKDAY_MAP \cup {"MON", "someday"}

EvalSchedules ==
    {NoSchedule, BadSchedule, Schedule("none", <<"nonnum">>, <<"missing">>, "")}
    \cup {Schedule("interval", m, <<"missing">>, "") : m \in MinuteFields}
    \cup {Schedule(k, <<"nonnum">>, t, "") : k \in {"daily", "monthly"}, t \in TimeFields}
    \cup {Schedule("weekly", <<"nonnum">>, t, d) : t \in TimeFields, d \in DayFields}

EvalTasks == {[id |-> <<"t", 1>>, schedule |-> s] : s \in EvalSchedules}

EvalInit ==
    /\ evTask \in EvalTasks
    /\ evEntry \in Entries
    /\ evNow \in Instants
    /\ evOut = NotCalled
    /\ StoreIdle
    /\ TodoIdle
    /\ SchedIdle
    /\ MemIdle
    /\ ChatIdle

EvalCall ==
    /\ evOut = NotCalled
    /\ evOut' = evaluate_task(evTask, evNow, evEntry)
    /\ UNCHANGED <<evTask, evEntry, evNow, storeVars, todoVars, schedVars, memVars, chatVars>>

\* The same task looked at again at a later instant, its run-state entry
\* being what it was.
EvalLater ==
    /\ evOut # NotCalled
    /\ \E t \in Instants :
        /\ t > evNow
        /\ evNow' = t
        /\ evOut' = evaluate_task(evTask, t, evEntry)
    /\ UNCHANGED <<evTask, evEntry, storeVars, todoVars, schedVars, memVars, chatVars>>

EvalNext == EvalCall \/ EvalLater

SpecEval == EvalInit /\ [][EvalNext]_vars

----------------------------------------------------------------------------
(* SpecTodo: the operations on the todo document, one after another *)

\* The todo documents at the start: the lists of at most MaxSeed open items
\* and the documents that are no list.  An item is a shell todo due at instant
\* 0, whose command may fail or not at each dispatch; at most one item of a
\* list is another one: a named check without a repository path, an item
\* whose action is no object, a note whose due time does not parse, a note
\* that is due later, or an element that is no object.
ShellTodo == Todo(<<"todo", 0>>, "a", <<"dt", 0>>, "open", Shell)
TodoInstant == 1
OddTodos ==
    {Todo(<<"todo", 0>>, "a", <<"dt", 0>>, "open", XingyunCheck(<<>>)),
     Todo(<<"todo", 0>>, "a", <<"dt", 0>>, "open", NotAnAction),
     Todo(<<"todo", 0>>, "a", <<"garbage">>, "open", Note),
     Todo(<<"todo", 0>>, "a", <<"dt", TodoInstant + 1>>, "open", Note),
     NotATodo}

\* Seed ids are stamps before instant 0, one per position.
Stamped(items) ==
    [i \in 1..Len(items) |->
        IF items[i].kind = "obj" THEN [items[i] EXCEPT !.id = <<"todo", 0 - i>>]
        ELSE items[i]]

SeedLists ==
    UNION {{l \in [1..n -> {ShellTodo} \cup OddTodos] :
              Cardinality({i \in 1..n : l[i] # ShellTodo}) <= 1} : n \in 0..MaxSeed}
TodoDocs == {ListDoc(Stamped(l)) : l \in SeedLists} \cup {NonListDoc, InvalidDoc}

\* A second todo_create task, whose template has no action.
RemindTask ==
    Task(<<"remind", 0>>, "todo_create", TRUE,
         Schedule("daily", <<"nonnum">>, <<"hhmm", 0>>, ""),
         TodoConfig("a", NoAction, <<"missing">>, <<"int", 0>>), <<>>)

TodoInit ==
    /\ clock = TodoInstant
    /\ env = Environ(<<>>, <<>>, NoConfig)
    /\ tasksDoc = ListDoc(<<CreateTask, RemindTask>>)
    /\ todosDoc \in TodoDocs
    /\ lastOp = NoOp
    /\ opCount = 0
    /\ EvalIdle
    /\ SchedIdle
    /\ MemIdle
    /\ ChatIdle

Room == Len(todosDoc.items) < MaxSeed
Counted == opCount < MaxOps /\ opCount' = opCount + 1

\* The subprocess of each item exits 0 or not; only the open items can have one.
Outcomes(items) ==
    {[i \in 1..Len(items) |-> i \in S] :
        S \in SUBSET {i \in 1..Len(items) : items[i].status = "open"}}

TodoScan ==
    \E oks \in Outcomes(todosDoc.items) :
        LET r == run_todo_scan(todosDoc, clock, env, oks) IN
        /\ todosDoc' = r.doc
        /\ lastOp' = Op("scan", r.raised, r.dispatched, r.succeeded)
        /\ UNCHANGED <<clock, env, tasksDoc, opCount, evalVars, memVars, chatVars, schedVars>>

\* A todo_create task fires.  A task fires once in a tick, and two ticks are
\* not of the same second: the task has made no todo at this instant.
TodoCreate ==
    /\ Room
    /\ Counted
    /\ \E i \in 1..Len(tasksDoc.items) :
        LET r == create_todo(tasksDoc.items[i], clock, todosDoc) IN
        /\ tasksDoc.items[i].type = "todo_create"
        /\ \A k \in 1..Len(todosDoc.items) :
                todosDoc.items[k].id # tasksDoc.items[i].id \o <<Stamp(clock)>>
        /\ todosDoc' = r.doc
        /\ lastOp' = Op("create", r.raised, {}, {})
    /\ UNCHANGED <<clock, env, tasksDoc, evalVars, memVars, chatVars, schedVars>>

TodoAdd ==
    /\ Room
    /\ Counted
    /\ \E due_at \in {<<"dt", clock>>, <<"dt", clock - 2>>},
          action_type \in {"note", "shell", "email"},
          given \in {<<>>} :
        LET r == add_todo("b", due_at, action_type, given, given, clock, todosDoc,
                          tasksDoc, env) IN
        /\ todosDoc' = r.todos
        /\ tasksDoc' = r.tasks
        /\ lastOp' = Op("add", r.error, {}, {})
    /\ UNCHANGED <<clock, env, evalVars, memVars, chatVars, schedVars>>

\* The ids a caller may name: those of the document, and one of none.
KnownIds == {todosDoc.items[i].id : i \in 1..Len(todosDoc.items)} \ {<<>>}
NamedIds == KnownIds \cup {<<"todo", 99>>}

\* update_todo by id or by title: a new title alone, a new title with a due
\* time that does not parse or is past, with an action type that is not
\* supported or that lacks its command, a new action, or nothing to change.
UpdateArgs ==
    {[new_title |-> <<"b">>, new_due_at |-> <<>>, new_action_type |-> <<>>],
     [new_title |-> <<"b">>, new_due_at |-> <<<<"garbage">>>>, new_action_type |-> <<>>],
     [new_title |-> <<"b">>, new_due_at |-> <<<<"dt", TodoInstant - 2>>>>,
      new_action_type |-> <<>>],
     [new_title |-> <<"b">>, new_due_at |-> <<>>, new_action_type |-> <<"email">>],
     [new_title |-> <<"b">>, new_due_at |-> <<>>, new_action_type |-> <<"shell">>],
     [new_title |-> <<>>, new_due_at |-> <<>>, new_action_type |-> <<"note">>],
     [new_title |-> <<>>, new_due_at |-> <<>>, new_action_type |-> <<>>]}

TodoUpdate ==
    /\ Counted
    /\ \E key \in {[todo_id |-> <<id>>, title |-> <<>>] : id \in NamedIds}
                  \cup {[todo_id |-> <<>>, title |-> <<"a">>]},
          a \in UpdateArgs :
        LET r == update_todo(key.todo_id, key.title, a.new_title, a.new_due_at,
                             a.new_action_type, <<>>, <<>>, clock, todosDoc, tasksDoc,
                             env) IN
        /\ todosDoc' = r.todos
        /\ tasksDoc' = r.tasks
        /\ lastOp' = Op("update", r.error, {}, {})
    /\ UNCHANGED <<clock, env, evalVars, memVars, chatVars, schedVars>>

\* close_todo by one id, by two ids, or by title.
TodoClose ==
    /\ Counted
    /\ \E key \in {[ids |-> <<id>>, title |-> <<>>] : id \in NamedIds}
                  \cup {[ids |-> <<p[1], p[2]>>, title |-> <<>>] :
                           p \in {q \in KnownIds \X NamedIds : q[1] # q[2]}}
                  \cup {[ids |-> <<>>, title |-> <<"a">>]} :
        LET r == close_todo(key.ids, key.title, <<"closed by hand">>, clock, todosDoc,
                            tasksDoc) IN
        /\ todosDoc' = r.todos
        /\ tasksDoc' = r.tasks
        /\ lastOp' = Op("close", r.error, {}, {})
    /\ UNCHANGED <<clock, env, evalVars, memVars, chatVars, schedVars>>

\* add_schedule with a daily time, and with an interval that is none.
ScheduleArgs ==
    {[kind |-> "daily", time |-> <<"hhmm", 0>>, minutes |-> <<"nonnum">>],
     [kind |-> "interval", time |-> <<"missing">>, minutes |-> <<"int", 0>>]}

TodoSchedule ==
    /\ Counted
    /\ \E a \in ScheduleArgs :
        LET r == add_schedule("b", a.kind, a.time, "", a.minutes, "note", <<>>, <<>>,
                              clock, todosDoc, tasksDoc, env) IN
        /\ todosDoc' = r.todos
        /\ tasksDoc' = r.tasks
        /\ lastOp' = Op("schedule", r.error, {}, {})
    /\ UNCHANGED <<clock, env, evalVars, memVars, chatVars, schedVars>>

TodoNext ==
    TodoScan \/ TodoCreate \/ TodoAdd \/ TodoUpdate \/ TodoClose \/ TodoSchedule

SpecTodo == TodoInit /\ [][TodoNext]_vars

----------------------------------------------------------------------------
(* SpecDispatch: the dispatch of the actions that need a field, in every *)
(* environment *)

\* The environments: each of the two variables and of the two defaults of
\* config.json is set or not.
Environs ==
    {Environ(x, c, Config(dx, dc)) :
        x \in {<<>>, <<"variable">>}, c \in {<<>>, <<"variable">>},
        dx \in {<<>>, <<"default">>}, dc \in {<<>>, <<"default">>}}

\* The todos at the start: a named check of either kind with a repository of
\* its own or without, a shell todo with or without command, each due.
CheckTodos ==
    {Todo(<<"todo", 0>>, "a", <<"dt", 0>>, "open", action) :
        action \in {XingyunCheck(<<>>), XingyunCheck(<<"own">>), ChanganCheck(<<>>),
                    ChanganCheck(<<"own">>), Shell, Action("shell", <<>>, <<>>)}}

DispatchInit ==
    /\ clock = TodoInstant
    /\ env \in Environs
    /\ tasksDoc = ListDoc(<<>>)
    /\ todosDoc \in {ListDoc(<<>>)} \cup {ListDoc(Stamped(<<todo>>)) : todo \in CheckTodos}
    /\ lastOp = NoOp
    /\ opCount = 0
    /\ EvalIdle
    /\ SchedIdle
    /\ MemIdle
    /\ ChatIdle

\* add_todo with a named check or a shell command, with the field that the
\* action needs or without it.
AddCheck ==
    /\ Room
    /\ Counted
    /\ \E action_type \in NamedChecks \cup {"shell"}, given \in {<<>>, <<"own">>} :
        LET r == add_todo("b", <<"dt", clock>>, action_type, given, given, clock,
                          todosDoc, tasksDoc, env) IN
        /\ todosDoc' = r.todos
        /\ tasksDoc' = r.tasks
        /\ lastOp' = Op("add", r.error, {}, {})
    /\ UNCHANGED <<clock, env, evalVars, memVars, chatVars, schedVars>>

DispatchNext == TodoScan \/ AddCheck

SpecDispatch == DispatchInit /\ [][DispatchNext]_vars

----------------------------------------------------------------------------
(* SpecSchedule: add_schedule applied to every combination of its arguments *)

\* The task document before a call: a list, empty or not, or no list.
ScheduleDocs == {ListDoc(<<>>), ListDoc(<<CreateTask>>), NonListDoc, InvalidDoc}

\* The arguments: a kind of the three or another, a time that is absent, of
\* the day or "24:00", a weekday in either case, absent or no weekday, minutes
\* that are absent, no number, 0 or more, an action with its field or without.
ScheduleKinds == VALID_SCHEDULE_KINDS \cup {"monthly"}
ScheduleTimes == {<<"missing">>} \cup {<<"hhmm", n>> : n \in 0..DayLen}
ScheduleDays == {"", "mon", "MON", "sun", "someday"}
ScheduleMinutes == {<<"missing">>} \cup MinuteFields
ScheduleActions ==
    {[type |-> "note", command |-> <<>>], [type |-> "email", command |-> <<>>],
     [type |-> "shell", command |-> <<>>], [type |-> "shell", command |-> <<"own">>]}

ScheduleInit ==
    /\ clock = TodoInstant
    /\ env = Environ(<<>>, <<>>, NoConfig)
    /\ tasksDoc \in ScheduleDocs
    /\ todosDoc = ListDoc(<<>>)
    /\ lastOp = NoOp
    /\ opCount = 0
    /\ EvalIdle
    /\ SchedIdle
    /\ MemIdle
    /\ ChatIdle

ScheduleCall ==
    /\ Len(ensure_tasks(tasksDoc)) < MaxTasks
    /\ \E kind \in ScheduleKinds, time \in ScheduleTimes, day \in ScheduleDays,
          minutes \in ScheduleMinutes, action \in ScheduleActions :
        LET r == add_schedule("b", kind, time, day, minutes, action.type, <<>>,
                              action.command, clock, todosDoc, tasksDoc, env) IN
        /\ todosDoc' = r.todos
        /\ tasksDoc' = r.tasks
        /\ lastOp' = Op("schedule", r.error, {}, {})
    /\ UNCHANGED <<clock, env, opCount, evalVars, memVars, chatVars, schedVars>>

ScheduleNext == ScheduleCall

SpecSchedule == ScheduleInit /\ [][ScheduleNext]_vars

----------------------------------------------------------------------------
(* SpecRace: the scheduler thread and a chat tool of the same process, each *)
(* between its load of the todo document and its write                     *)

\* start_scheduler_in_thread runs run() in a thread of the process that serves
\* the chat tools, and no operation takes a lock: each operation is a load of
\* the document into memory and, later, a write of the whole list it holds.
\* The todos at the start are shell todos that are due.
RaceDocs ==
    {ListDoc(<<>>), ListDoc(Stamped(<<ShellTodo>>)),
     ListDoc(Stamped(<<ShellTodo, ShellTodo>>))}

\* The calls of the chat tools: add_todo, update_todo with a new title,
\* close_todo by one id.
RaceCalls ==
    {[tool |-> "add", id |-> <<>>]}
    \cup {[tool |-> t, id |-> <<"todo", 0 - i>>] : t \in {"update", "close"}, i \in 1..2}

RaceInit ==
    /\ clock = TodoInstant
    /\ env = Environ(<<>>, <<>>, NoConfig)
    /\ tasksDoc = ListDoc(<<CreateTask>>)
    /\ todosDoc \in RaceDocs
    /\ lastOp = NoOp
    /\ opCount = 0
    /\ EvalIdle
    /\ SchedIdle
    /\ MemIdle
    /\ ChatIdle

\* What a thread holds between load and write.
Held(op, call, doc, tasks) == [op |-> op, call |-> call, doc |-> doc, tasks |-> tasks]

\* run_todo_scan, l.177: the load.
ScanLoad ==
    /\ scanning = <<>>
    /\ scanning' = <<Held("scan", <<>>, todosDoc, tasksDoc)>>
    /\ UNCHANGED <<calling, storeVars, todoVars, evalVars, chatVars, schedVars>>

\* run_todo_scan, l.182-222: the loop over the list in memory and the write.
ScanSave ==
    /\ scanning # <<>>
    /\ scanning[1].op = "scan"
    /\ \E oks \in Outcomes(scanning[1].doc.items) :
        LET r == run_todo_scan(scanning[1].doc, clock, env, oks)
            effects == {scanning[1].doc.items[i].id : i \in r.succeeded}
        IN
        /\ todosDoc' = IF ~r.raised /\ r.dispatched # {} THEN r.doc ELSE todosDoc
        /\ lastOp' = Op("scan", r.raised, r.dispatched, r.succeeded)
        /\ ranOnce' = ranOnce \cup effects
        /\ ranTwice' = ranTwice \cup (effects \cap ranOnce)
    /\ scanning' = <<>>
    /\ UNCHANGED <<calling, clock, env, tasksDoc, opCount, evalVars, chatVars, procVars, invoked,
                   completed>>

\* create_todo, l.248: the load.
CreateLoad ==
    /\ scanning = <<>>
    /\ Counted
    /\ scanning' = <<Held("create", <<>>, todosDoc, tasksDoc)>>
    /\ UNCHANGED <<calling, storeVars, lastOp, evalVars, chatVars, schedVars>>

\* create_todo, l.249-252: the append and the write.
CreateSave ==
    /\ scanning # <<>>
    /\ scanning[1].op = "create"
    /\ LET r == create_todo(CreateTask, clock, scanning[1].doc) IN
        /\ todosDoc' = r.doc
        /\ lastOp' = Op("create", r.raised, {}, {})
    /\ scanning' = <<>>
    /\ UNCHANGED <<calling, clock, env, tasksDoc, opCount, evalVars, chatVars, schedVars>>

\* ensure_todos() and ensure_tasks() at the start of a chat tool.
CallLoad ==
    /\ calling = <<>>
    /\ Counted
    /\ \E call \in RaceCalls : calling' = <<Held(call.tool, call, todosDoc, tasksDoc)>>
    /\ UNCHANGED <<scanning, storeVars, lastOp, evalVars, chatVars, schedVars>>

\* What the tool does with the lists it holds.
CallResult(held, now, environ) ==
    CASE held.op = "add" ->
            add_todo("b", <<"dt", now>>, "note", <<>>, <<>>, now, held.doc, held.tasks,
                     environ)
      [] held.op = "update" ->
            update_todo(<<held.call.id>>, <<>>, <<"b">>, <<>>, <<>>, <<>>, <<>>, now,
                        held.doc, held.tasks, environ)
      [] OTHER ->
            close_todo(<<held.call.id>>, <<>>, <<"closed by hand">>, now, held.doc,
                       held.tasks)

\* The rest of the tool: it writes the lists it holds unless it returns an
\* error.
CallSave ==
    /\ calling # <<>>
    /\ LET r == CallResult(calling[1], clock, env) IN
        /\ todosDoc' = IF r.error THEN todosDoc ELSE r.todos
        /\ tasksDoc' = IF r.error THEN tasksDoc ELSE r.tasks
        /\ lastOp' = Op(calling[1].op, r.error, {}, {})
    /\ calling' = <<>>
    /\ UNCHANGED <<scanning, clock, env, opCount, evalVars, chatVars, schedVars>>

RaceNext == ScanLoad \/ ScanSave \/ CreateLoad \/ CreateSave \/ CallLoad \/ CallSave

SpecRace == RaceInit /\ [][RaceNext]_vars

----------------------------------------------------------------------------
(* Claims about the todo scanner and the todo document (SpecTodo) *)

Items == todosDoc.items
Positions == 1..Len(Items)

\* An item that a scan at the wall clock has to dispatch: not done, with a due
\* time that has come.
OpenAndDue(todo) ==
    /\ todo.status # "done"
    /\ todo.due_at[1] = "dt"
    /\ todo.due_at[2] <= clock

Scanned == lastOp.op = "scan"
DispatchFailed(i) == i \in lastOp.dispatched \ lastOp.succeeded

\* C3: after one scan, every due item whose action succeeded is done, every
\* due item whose action failed is open with last_error set, and no item that
\* was due is left out of the scan because of another item.
C3_FailureIsolation ==
    Scanned =>
        \A i \in Positions :
            /\ i \in lastOp.succeeded => Items[i].status = "done"
            /\ DispatchFailed(i) =>
                    Items[i].status = "open" /\ Items[i].last_error # <<>>
            /\ Items[i].kind = "obj" /\ OpenAndDue(Items[i]) => i \in lastOp.dispatched

\* C4: an item whose action raised in a scan is open with last_error and
\* last_attempt_at set and without done_at and result; an open item that is
\* due is dispatched by every scan, the items that failed before included, and
\* is done once its dispatch succeeds.  (An action that is no object raises
\* as well: the item is then left without last_error.)
C4_FailedTodoIsRetried ==
    Scanned =>
        \A i \in Positions :
            /\ DispatchFailed(i) =>
                    /\ Items[i].status = "open"
                    /\ Items[i].last_error # <<>>
                    /\ Items[i].last_attempt_at = <<clock>>
                    /\ Items[i].done_at = <<>>
                    /\ Items[i].result = <<>>
            /\ Items[i].kind = "obj" /\ OpenAndDue(Items[i]) =>
                    /\ i \in lastOp.dispatched
                    /\ Items[i].last_error # <<>>
            /\ i \in lastOp.succeeded /\ Items[i].last_error # <<>> =>
                    Items[i].status = "done"

\* C5: an item that is done stays at its position with its status, done_at
\* and result, and no scan dispatches its action.
DoneIsFinal(i) ==
    Items[i].kind = "obj" /\ Items[i].status = "done" =>
        /\ i <= Len(todosDoc'.items)
        /\ todosDoc'.items[i].status = "done"
        /\ todosDoc'.items[i].done_at = Items[i].done_at
        /\ todosDoc'.items[i].result = Items[i].result
        /\ lastOp'.op = "scan" => i \notin lastOp'.dispatched

C5_DoneIsTerminal == [][\A i \in Positions : DoneIsFinal(i)]_vars

\* A done item, and a close_todo naming it by its title that was refused.
C5_Witness ==
    /\ lastOp.op = "close"
    /\ lastOp.raised
    /\ Len(Items) = 1
    /\ Items[1].kind = "obj"
    /\ Items[1].status = "done"
    /\ Items[1].result = <<"output">>

\* C6: run_todo_scan returns and does not raise, whatever the document holds.
C6_ScanNeverRaises == Scanned => ~lastOp.raised

----------------------------------------------------------------------------
(* Claims about evaluate_task (SpecEval) *)

Evaluated == evOut # NotCalled

\* The schedules the evaluator has to answer "not due" for.
MalformedSchedule(schedule) ==
    \/ schedule.shape # "obj"
    \/ schedule.kind \notin {"interval", "daily", "weekly"}
    \/ schedule.kind = "interval" /\ schedule.minutes[1] # "int"
    \/ /\ schedule.kind \in {"daily", "weekly"}
       /\ ~(schedule.time[1] = "hhmm" /\ schedule.time[2] < DayLen)
    \/ schedule.kind = "weekly" /\ Lower(schedule.day_of_week) \notin DOMAIN WEEKDAY_MAP

\* C7: evaluate_task raises for no task record and no run-state entry, and a
\* missing or malformed schedule is answered with "not due".
C7_EvaluateNeverRaises ==
    Evaluated =>
        /\ ~evOut.raised
        /\ MalformedSchedule(evTask.schedule) => ~evOut.due

\* A run-state entry that is a timestamp of the calendar day of now.
RanToday ==
    /\ evEntry[1] \in {"aware", "naive"}
    /\ DayOf(evEntry[2]) = DayOf(evNow)

IsDaily == evTask.schedule.shape = "obj" /\ evTask.schedule.kind = "daily"

ValidTime == evTask.schedule.time[1] = "hhmm" /\ evTask.schedule.time[2] < DayLen

AlreadyRan == Ret(FALSE, "already ran today")

\* C10 as stated: every daily task whose run-state entry is of the calendar
\* day of now is answered with not due, "already ran today".
C10_AlreadyRanToday_AnyTime ==
    Evaluated /\ IsDaily /\ RanToday => evOut = AlreadyRan

\* C10: a daily task with a time that parses as HH:MM, whose run-state entry is
\* of the calendar day of now, is answered with not due, "already ran today",
\* at every time of day of now.
C10_AlreadyRanToday ==
    Evaluated /\ IsDaily /\ ValidTime /\ RanToday => evOut = AlreadyRan

\* A daily task evaluated after its time of day on the day it ran already.
C10_Witness ==
    /\ Evaluated /\ IsDaily /\ ValidTime /\ RanToday
    /\ TimeOf(evNow) >= evTask.schedule.time[2]
    /\ evEntry[2] < evNow
    /\ evOut = AlreadyRan

IsWeekly == evTask.schedule.shape = "obj" /\ evTask.schedule.kind = "weekly"

\* The names of the days of the week, Monday first, as datetime.weekday()
\* counts them.
WeekdayNames == <<"mon", "tue", "wed", "thu", "fri", "sat", "sun">>

ValidDay ==
    \E i \in 1..Len(WeekdayNames) : WeekdayNames[i] = Lower(evTask.schedule.day_of_week)

\* The run state records no run of the task today: no entry, an entry that
\* is no timestamp, or the timestamp of another day.
NoRunToday ==
    \/ evEntry \in {Absent, <<"garbage">>}
    \/ evEntry[1] \in {"aware", "naive"} /\ DayOf(evEntry[2]) # DayOf(evNow)

\* C11: a weekly task with a valid time and day_of_week and no run recorded
\* today is due exactly when the weekday of now is the task's day_of_week and
\* the time of day of now is at or after the task's time.
C11_WeeklyDueIff ==
    Evaluated /\ IsWeekly /\ ValidTime /\ ValidDay /\ NoRunToday =>
        /\ ~evOut.raised
        /\ evOut.due <=>
                /\ WeekdayNames[WeekdayOf(evNow) + 1] = Lower(evTask.schedule.day_of_week)
                /\ TimeOf(evNow) >= evTask.schedule.time[2]

\* A task of Wednesday at time 1, last run on Tuesday, found due on Wednesday
\* at time 2.
C11_Witness ==
    /\ IsWeekly
    /\ evTask.schedule.day_of_week = "wed"
    /\ evTask.schedule.time = <<"hhmm", 1>>
    /\ evEntry = Aware(DayLen)
    /\ evNow = 2 * DayLen + 2
    /\ evOut = Ret(TRUE, "not due yet")

IsInterval == evTask.schedule.shape = "obj" /\ evTask.schedule.kind = "interval"

\* C12: an interval task that is due at an instant is due at every later
\* instant at which its run-state entry is what it was.
C12_IntervalDueIsMonotonic ==
    [][/\ IsInterval /\ Evaluated /\ ~evOut.raised /\ evOut.due
       /\ evNow' > evNow /\ evEntry' = evEntry /\ evTask' = evTask
       => ~evOut'.raised /\ evOut'.due]_vars

\* A task of every 2 minutes that ran at instant 1, found due at instant 4
\* (as it was from instant 3 on).
C12_Witness ==
    /\ IsInterval
    /\ evTask.schedule.minutes = <<"int", 2>>
    /\ evEntry = Aware(1)
    /\ evNow = 4
    /\ evOut = Ret(TRUE, "interval due")

----------------------------------------------------------------------------
(* Spec: the scheduler process, its ticks, and its death and restart *)

\* The task documents at the start: at most MaxTasks tasks that follow one
\* another in TaskPool, and the documents that are no list.
Windows ==
    {w \in (1..Len(TaskPool)) \X (0..Len(TaskPool)) :
        w[1] - 1 <= w[2] /\ w[2] - w[1] < MaxTasks}

TaskDocs ==
    {ListDoc(SubSeq(TaskPool, w[1], w[2])) : w \in Windows}
    \cup {NonListDoc, InvalidDoc}

\* The todo documents at the start: empty, one open shell todo due at instant
\* 0, and the documents that are no list.
ShellDocs ==
    {ListDoc(<<>>), ListDoc(Stamped(<<ShellTodo>>)), NonListDoc, InvalidDoc}

StateDocs == {StateObj(NoEntries), NonObjState, InvalidState}

\* At most one of the three documents is malformed.
Init ==
    /\ clock = 0
    /\ env = Environ(<<>>, <<>>, NoConfig)
    /\ tasksDoc \in TaskDocs
    /\ todosDoc \in ShellDocs
    /\ stateDoc \in StateDocs
    /\ Cardinality({d \in {"tasks", "todos", "state"} :
            \/ d = "tasks" /\ tasksDoc.shape # "list"
            \/ d = "todos" /\ todosDoc.shape # "list"
            \/ d = "state" /\ stateDoc.shape # "obj"}) <= 1
    /\ heartbeat = <<>>
    /\ logged = {}
    /\ pc = "started"
    /\ cycle = NoCycle
    /\ skip_notices = {}
    /\ restarts = 0
    /\ once \in BOOLEAN
    /\ invoked = NoRuns
    /\ completed = NoRuns
    /\ ranOnce = {}
    /\ ranTwice = {}
    /\ TodoIdle
    /\ EvalIdle
    /\ MemIdle
    /\ ChatIdle

\* The history counters tell 0, 1 and "more than once" apart.
Counted1(runs, id) == [runs EXCEPT ![id] = IF @ < 2 THEN @ + 1 ELSE @]

\* The ids of the todos at the positions given.
IdsAt(doc, positions) == {doc.items[i].id : i \in positions}

\* Whether instant t is of the calendar day of the last tick.
SameDay(t) == heartbeat # <<>> /\ DayOf(heartbeat[1]) = DayOf(t)

\* The start of a tick as it would be without write_heartbeat.
TickStart_NoHeartbeat ==
    /\ pc \in {"started", "idle"}
    /\ clock < MaxTick
    /\ LET t == clock + 1 IN
        /\ clock' = t
        /\ cycle' = [now |-> t, tasks |-> load_tasks(tasksDoc),
                     state |-> load_state(stateDoc), state_changed |-> FALSE, i |-> 1]
        /\ invoked' = IF SameDay(t) THEN invoked ELSE NoRuns
        /\ completed' = IF SameDay(t) THEN completed ELSE NoRuns
    /\ logged' = {}
    /\ pc' = "loop"
    /\ UNCHANGED <<env, tasksDoc, todosDoc, stateDoc, heartbeat, skip_notices, restarts, once,
                   ranOnce, ranTwice, todoVars, evalVars, memVars, chatVars>>

\* The start of a tick as it would be if the run state were not read from
\* the document.
TickStart_NoRunState ==
    /\ pc \in {"started", "idle"}
    /\ clock < MaxTick
    /\ LET t == clock + 1 IN
        /\ clock' = t
        /\ heartbeat' = <<t>>
        /\ cycle' = [now |-> t, tasks |-> load_tasks(tasksDoc),
                     state |-> NoEntries, state_changed |-> FALSE, i |-> 1]
        /\ invoked' = IF SameDay(t) THEN invoked ELSE NoRuns
        /\ completed' = IF SameDay(t) THEN completed ELSE NoRuns
    /\ logged' = {}
    /\ pc' = "loop"
    /\ UNCHANGED <<env, tasksDoc, todosDoc, stateDoc, skip_notices, restarts, once, ranOnce,
                   ranTwice, todoVars, evalVars, memVars, chatVars>>

\* run_cycle up to the loop: the heartbeat is written and the two documents
\* are loaded.  A running scheduler ticks at every instant, up to MaxTick.
TickStart ==
    /\ pc \in {"started", "idle"}
    /\ clock < MaxTick
    /\ LET t == clock + 1 IN
        /\ clock' = t
        /\ heartbeat' = <<t>>
        /\ cycle' = [now |-> t, tasks |-> load_tasks(tasksDoc),
                     state |-> load_state(stateDoc), state_changed |-> FALSE, i |-> 1]
        /\ invoked' = IF SameDay(t) THEN invoked ELSE NoRuns
        /\ completed' = IF SameDay(t) THEN completed ELSE NoRuns
    /\ logged' = {}
    /\ pc' = "loop"
    /\ UNCHANGED <<env, tasksDoc, todosDoc, stateDoc, skip_notices, restarts, once, ranOnce,
                   ranTwice, todoVars, evalVars, memVars, chatVars>>

\* What one iteration of the loop leaves in the process, r being the outcome
\* of the loop body for the task: the locals of run_cycle, the todo document,
\* the log, and the history of the runs.
Iterated(task, r) ==
        LET ran == r.op.op \notin {"skip", "evaluate_task"}
            effects == IdsAt(todosDoc, r.op.succeeded)
        IN
        /\ pc' = IF r.escaped THEN "crashed" ELSE "loop"
        /\ cycle' = IF r.escaped THEN NoCycle
                    ELSE [cycle EXCEPT !.state = r.state,
                                       !.state_changed = @ \/ r.changed,
                                       !.i = @ + 1]
        /\ todosDoc' = r.doc
        /\ logged' = IF r.escaped THEN {} ELSE logged \cup r.lines
        /\ skip_notices' = IF r.escaped THEN {} ELSE r.notices
        /\ lastOp' = r.op
        /\ invoked' = IF ran THEN Counted1(invoked, task.id) ELSE invoked
        /\ completed' = IF ran /\ ~r.op.raised THEN Counted1(completed, task.id)
                        ELSE completed
        /\ ranOnce' = ranOnce \cup effects
        /\ ranTwice' = ranTwice \cup (effects \cap ranOnce)

\* One iteration of the loop of run_cycle.  An exception that leaves
\* run_cycle leaves run() as well and ends the scheduler thread.
TaskStep ==
    /\ pc = "loop"
    /\ cycle.i <= Len(cycle.tasks)
    /\ \E oks \in Outcomes(todosDoc.items), ok \in BOOLEAN :
        Iterated(cycle.tasks[cycle.i],
                 LoopBody(cycle.tasks[cycle.i], cycle.now, cycle.state, todosDoc, env,
                          skip_notices, oks, ok))
    /\ UNCHANGED <<clock, env, tasksDoc, stateDoc, heartbeat, restarts, once, opCount,
                   evalVars, memVars, chatVars>>

\* The end of run_cycle as it would be if the run state were written at
\* every tick.
TickEnd_AlwaysWrite ==
    /\ pc = "loop"
    /\ cycle.i > Len(cycle.tasks)
    /\ stateDoc' = StateObj(cycle.state)
    /\ pc' = IF once THEN "returned" ELSE "idle"
    /\ cycle' = NoCycle
    /\ UNCHANGED <<storeVars, heartbeat, logged, skip_notices, restarts, once, histVars,
                   todoVars, evalVars, memVars, chatVars>>

\* The end of run_cycle as it would be if the tasks that the tick loaded were
\* written back to agent_tasks.json.
TickEnd_SaveTasks ==
    /\ pc = "loop"
    /\ cycle.i > Len(cycle.tasks)
    /\ stateDoc' = IF cycle.state_changed THEN StateObj(cycle.state) ELSE stateDoc
    /\ tasksDoc' = ListDoc(cycle.tasks)
    /\ pc' = IF once THEN "returned" ELSE "idle"
    /\ cycle' = NoCycle
    /\ UNCHANGED <<clock, env, todosDoc, heartbeat, logged, skip_notices, restarts, once,
                   histVars, todoVars, evalVars, memVars, chatVars>>

\* The end of run_cycle: the run state is written if a task ran.  run() then
\* returns if once is set, and sleeps until the next tick otherwise.
TickEnd ==
    /\ pc = "loop"
    /\ cycle.i > Len(cycle.tasks)
    /\ stateDoc' = IF cycle.state_changed THEN StateObj(cycle.state) ELSE stateDoc
    /\ pc' = IF once THEN "returned" ELSE "idle"
    /\ cycle' = NoCycle
    /\ UNCHANGED <<storeVars, heartbeat, logged, skip_notices, restarts, once, histVars,
                   todoVars, evalVars, memVars, chatVars>>

\* The process is killed after an iteration of the loop: before the next
\* one, or before the run state is written.
Kill ==
    /\ pc = "loop"
    /\ cycle.i > 1
    /\ pc' = "dead"
    /\ cycle' = NoCycle
    /\ skip_notices' = {}
    /\ logged' = {}
    /\ UNCHANGED <<storeVars, stateDoc, heartbeat, restarts, once, histVars, todoVars,
                   evalVars, memVars, chatVars>>

\* The process is killed inside run_todo_scan, after the dispatch of the item
\* at position k has returned and before the todo document is written.
KillInScan ==
    /\ pc = "loop"
    /\ cycle.i <= Len(cycle.tasks)
    /\ todosDoc.shape = "list"
    /\ LET task == cycle.tasks[cycle.i]
           e == evaluate_task(task, cycle.now, cycle.state[task.id])
       IN
       /\ task.enabled /\ task.type = "todo_scan"
       /\ ~e.raised /\ e.due
       /\ \E k \in 1..Len(todosDoc.items), oks \in Outcomes(todosDoc.items) :
            LET r == ScanLoop(todosDoc.items, 1, k, cycle.now, env, oks, ScanStart)
                effects == IdsAt(todosDoc, r.succeeded)
            IN
            /\ ~r.raised
            /\ k \in r.dispatched
            /\ lastOp' = Op("killed", FALSE, r.dispatched, r.succeeded)
            /\ ranOnce' = ranOnce \cup effects
            /\ ranTwice' = ranTwice \cup (effects \cap ranOnce)
       /\ invoked' = Counted1(invoked, task.id)
    /\ pc' = "dead"
    /\ cycle' = NoCycle
    /\ skip_notices' = {}
    /\ logged' = {}
    /\ UNCHANGED <<storeVars, stateDoc, heartbeat, restarts, once, completed, opCount,
                   evalVars, memVars, chatVars>>

\* The scheduler is started again, at once or some instants later: a new
\* TaskScheduler, whose run() begins with a tick.  The model starts the
\* scheduler of many ticks again, and leaves the run of one tick ended.
Restart ==
    /\ pc \in {"dead", "crashed"}
    /\ restarts < MaxRestarts
    /\ opCount = 0
    /\ ~once
    /\ restarts' = restarts + 1
    /\ \E t \in clock..(MaxTick - 1) : clock' = t
    /\ pc' = "started"
    /\ UNCHANGED <<env, tasksDoc, todosDoc, stateDoc, heartbeat, logged, cycle,
                   skip_notices, once, histVars, todoVars, evalVars, memVars, chatVars>>

\* What an edit of agent_tasks.json between two ticks leaves: a task enabled
\* or disabled, the todo_create task added, or the time of a daily task moved
\* to the last minute of the day.
EditedTasks(items) ==
    {[items EXCEPT ![i].enabled = ~@] : i \in 1..Len(items)}
    \cup (IF /\ Len(items) < MaxTasks
              /\ \A i \in 1..Len(items) : items[i].id # CreateTask.id
           THEN {Append(items, CreateTask)} ELSE {})
    \cup {[items EXCEPT ![i].schedule.time = <<"hhmm", DayLen - 1>>] :
            i \in {j \in 1..Len(items) :
                    /\ items[j].schedule.shape = "obj"
                    /\ items[j].schedule.kind = "daily"
                    /\ items[j].schedule.time # <<"hhmm", DayLen - 1>>}}

\* The task document is edited while the scheduler sleeps between two ticks.
\* Edits are made in the first life of the process, and a process that saw
\* an edit is not started again: the model keeps the two apart.
EditTasks ==
    /\ pc = "idle"
    /\ opCount < MaxEdits
    /\ restarts = 0
    /\ tasksDoc.shape = "list"
    /\ \E items \in EditedTasks(tasksDoc.items) : tasksDoc' = ListDoc(items)
    /\ opCount' = opCount + 1
    /\ UNCHANGED <<clock, env, todosDoc, lastOp, evalVars, memVars, chatVars, schedVars>>

\* The run-state document is removed while the scheduler sleeps.
EditState ==
    /\ pc = "idle"
    /\ opCount < MaxEdits
    /\ restarts = 0
    /\ stateDoc # StateObj(NoEntries)
    /\ stateDoc' = StateObj(NoEntries)
    /\ opCount' = opCount + 1
    /\ UNCHANGED <<storeVars, lastOp, heartbeat, logged, pc, cycle, skip_notices,
                   restarts, once, histVars, evalVars, memVars, chatVars>>

Next ==
    \/ TickStart \/ TaskStep \/ TickEnd \/ Kill \/ KillInScan \/ Restart
    \/ EditTasks \/ EditState

Spec == Init /\ [][Next]_vars

----------------------------------------------------------------------------
(* SpecTypes: ticks over tasks and todos of every type, known or not *)

\* The types of a task: one that run_task knows, the types of todo actions
\* that it does not, a misspelled one, and none.
TaskTypes == {"xingyun_tag_check", "shell", "note", "todo-scan", ""}

\* The types of a todo's action: the ones of the front end, one of another
\* name, a misspelled one, none, and a todo without action.
TypedActions ==
    {Note, Shell, XingyunCheck(<<"own">>), Action("email", <<>>, <<>>),
     Action("Shell", <<>>, <<"cmd">>), Action("", <<>>, <<>>), NoAction}

\* One todo of each action, due, alone or next to a shell todo.
TypedDocs ==
    LET Typed(action) == Todo(<<"todo", 0>>, "a", <<"dt", 0>>, "open", action) IN
    UNION {{ListDoc(Stamped(<<Typed(a)>>)), ListDoc(Stamped(<<Typed(a), ShellTodo>>)),
            ListDoc(Stamped(<<ShellTodo, Typed(a)>>))} : a \in TypedActions}

TypesInit ==
    /\ clock = 0
    /\ env = Environ(<<>>, <<>>, NoConfig)
    /\ \E type \in TaskTypes :
            tasksDoc \in {ListDoc(<<TypedTask(type), MinuteScan>>),
                          ListDoc(<<MinuteScan, TypedTask(type)>>)}
    /\ todosDoc \in TypedDocs
    /\ stateDoc \in {StateObj(NoEntries),
                      StateObj([NoEntries EXCEPT ![TypedTask("").id] = Aware(0)])}
    /\ heartbeat = <<>>
    /\ logged = {}
    /\ pc = "started"
    /\ cycle = NoCycle
    /\ skip_notices = {}
    /\ restarts = 0
    /\ once = FALSE
    /\ invoked = NoRuns
    /\ completed = NoRuns
    /\ ranOnce = {}
    /\ ranTwice = {}
    /\ TodoIdle
    /\ EvalIdle
    /\ MemIdle
    /\ ChatIdle

TypesNext == TickStart \/ TaskStep \/ TickEnd

SpecTypes == TypesInit /\ [][TypesNext]_vars

----------------------------------------------------------------------------
(* The chat: tool calls of the model pass the guard and are executed *)
(* (SpecGuard)                                                          *)

MaxCalls == 3

\* Two open todos of title "a", one of title "b", and a todo_create task of
\* title "b": each title needs an id.
FirstA == <<"todo", -1>>
SecondA == <<"todo", -2>>
OnlyB == <<"todo", -3>>
GuardTodos ==
    ListDoc(<<Todo(FirstA, "a", <<"dt", TodoInstant>>, "open", Note),
              Todo(SecondA, "a", <<"dt", TodoInstant>>, "open", Note),
              Todo(OnlyB, "b", <<"dt", TodoInstant>>, "open", Note)>>)
GuardTasks ==
    ListDoc(<<Task(<<"schedule", 0>>, "todo_create", TRUE,
                   Schedule("daily", <<"missing">>, <<"hhmm", 0>>, ""),
                   TodoConfig("b", NoAction, <<"missing">>, <<"int", 0>>), <<>>)>>)

\* The calls of the model and the queries of the user.
GuardCalls ==
    {ToolCall(tool_name, todo_id, title) :
        tool_name \in {"close_todo", "update_todo", "query_todos"},
        todo_id \in {<<>>, <<FirstA>>, <<FirstA, SecondA>>},
        title \in {<<>>, <<"a">>, <<"b">>}}
GuardQueries ==
    {Query(ids, confirm, these) :
        ids \in {<<>>, <<FirstA, OnlyB>>}, confirm \in BOOLEAN, these \in BOOLEAN}

GuardInit ==
    /\ clock = TodoInstant
    /\ env = Environ(<<>>, <<>>, NoConfig)
    /\ tasksDoc = GuardTasks
    /\ todosDoc = GuardTodos
    /\ lastOp = NoOp
    /\ opCount = 0
    /\ EvalIdle
    /\ SchedIdle
    /\ MemIdle
    /\ ChatIdle

\* parse_llm_response hands the call of the model to the guard.
GuardCall ==
    /\ guarded.n < MaxCalls
    /\ guarded.call = <<>> \/ guarded.ran
    /\ \E tool_call \in GuardCalls, query \in GuardQueries :
        LET r == guard_tool_call(tool_call, query, session, ensure_todos(todosDoc),
                                 ensure_tasks(tasksDoc)) IN
        /\ session' = r.session
        /\ guarded' = [n |-> guarded.n + 1, tool_call |-> tool_call, query |-> query,
                       call |-> r.call, ran |-> FALSE]
    /\ lastOp' = Op("guard", FALSE, {}, {})
    /\ UNCHANGED <<clock, env, todosDoc, tasksDoc, opCount, route, evalVars, memVars,
                   schedVars>>

\* The todo_id argument as update_todo reads it: an id, or a text that is the
\* id of no todo.
AsOneId(todo_id) ==
    IF Len(todo_id) = 1 THEN todo_id
    ELSE IF todo_id = <<>> THEN <<>> ELSE <<<<"todo", 99>>>>

\* The call that the guard let through is executed: close_todo, update_todo
\* with a new title, or a tool that changes nothing.  A success clears the
\* candidates; a close by a title of several sets them.
ExecuteTool ==
    /\ guarded.call # <<>>
    /\ ~guarded.ran
    /\ LET tool_call == guarded.call[1]
           r == CASE tool_call.tool_name = "close_todo" ->
                        close_todo(tool_call.todo_id, tool_call.title, <<>>, clock,
                                   todosDoc, tasksDoc)
                  [] tool_call.tool_name = "update_todo" ->
                        update_todo(AsOneId(tool_call.todo_id), tool_call.title, <<"c">>,
                                    <<>>, <<>>, <<>>, <<>>, clock, todosDoc, tasksDoc, env)
                  [] OTHER -> OpResult(FALSE, todosDoc, tasksDoc)
           m == TitleMatches(tool_call.title[1], ensure_todos(todosDoc),
                             ensure_tasks(tasksDoc))
           several == /\ tool_call.tool_name = "close_todo"
                      /\ tool_call.todo_id = <<>>
                      /\ tool_call.title # <<>>
                      /\ Len(m.todo_ids) + Len(m.schedule_ids) > 1
       IN
        /\ todosDoc' = r.todos
        /\ tasksDoc' = r.tasks
        /\ session' = [session EXCEPT !.last_candidates =
                           IF tool_call.tool_name = "query_todos" THEN @
                           ELSE IF ~r.error THEN <<>>
                           ELSE IF several THEN m.todo_ids \o m.schedule_ids
                           ELSE @]
        /\ lastOp' = Op(tool_call.tool_name, r.error, {}, {})
    /\ guarded' = [guarded EXCEPT !.ran = TRUE]
    /\ UNCHANGED <<clock, env, opCount, route, evalVars, memVars, schedVars>>

\* The entry of the session is older than its time to live: _cleanup drops it.
SessionExpires ==
    /\ session # NoSession
    /\ guarded.call = <<>> \/ guarded.ran
    /\ session' = NoSession
    /\ UNCHANGED <<clock, env, todosDoc, tasksDoc, lastOp, opCount, guarded, route,
                   evalVars, memVars, schedVars>>

GuardNext == GuardCall \/ ExecuteTool \/ SessionExpires

SpecGuard == GuardInit /\ [][GuardNext]_vars

----------------------------------------------------------------------------
(* The chat: a request goes through master_execute (SpecRoute) *)

AgentOutputs == {AgentOutput(parsed, text) : parsed \in BOOLEAN, text \in {"", "m"}}
Decisions ==
    {<<>>}
    \cup {Decision("return", message, "", <<>>) : message \in {"", "m"}}
    \cup {Decision("call", "", callee, query) :
             callee \in {"", "tool_agent", "todo_chat_agent", "other"},
             query \in {<<>>, <<"q">>}}

\* What the classification of the intent gives: no intent, an intent that is
\* not "todo", the action "other", or an action of the todo list.
Intents == {"none", "chat", "other", "todo"}

RouteInit ==
    /\ clock = TodoInstant
    /\ env = Environ(<<>>, <<>>, NoConfig)
    /\ tasksDoc = GuardTasks
    /\ todosDoc = GuardTodos
    /\ lastOp = NoOp
    /\ opCount = 0
    /\ EvalIdle
    /\ SchedIdle
    /\ MemIdle
    /\ ChatIdle

\* master_execute up to its loop (l.87-110): it answers at once unless the
\* intent is an action of the todo list.
RouteStart ==
    /\ route.at = "none"
    /\ \E intent \in Intents :
        route' = IF intent = "todo" THEN Route("loop", 0, "user", <<>>, <<>>, <<>>)
                 ELSE Route("done", 0, "user", <<>>, <<>>, <<intent>>)
    /\ UNCHANGED <<clock, env, todosDoc, tasksDoc, lastOp, opCount, session, guarded,
                   evalVars, memVars, schedVars>>

RouteIterate ==
    /\ route.at = "loop"
    /\ route.iters < _MAX_ITERS
    /\ \E first \in AgentOutputs, decision \in Decisions, second \in AgentOutputs :
        route' = master_iteration(route, first, decision, second)
    /\ UNCHANGED <<clock, env, todosDoc, tasksDoc, lastOp, opCount, session, guarded,
                   evalVars, memVars, schedVars>>

\* The loop is over (l.170-174).
RouteGiveUp ==
    /\ route.at = "loop"
    /\ route.iters = _MAX_ITERS
    /\ route' = [route EXCEPT !.at = "done", !.chats = <<>>, !.output = <<"too long">>]
    /\ UNCHANGED <<clock, env, todosDoc, tasksDoc, lastOp, opCount, session, guarded,
                   evalVars, memVars, schedVars>>

RouteNext == RouteStart \/ RouteIterate \/ RouteGiveUp

SpecRoute == RouteInit /\ [][RouteNext]_vars

----------------------------------------------------------------------------
(* Claims about the scheduler (Spec) *)

\* The enabled daily tasks of the task document whose time parses.
DailyTasks ==
    {t \in {tasksDoc.items[i] : i \in 1..Len(tasksDoc.items)} :
        /\ t.enabled
        /\ t.schedule.shape = "obj"
        /\ t.schedule.kind = "daily"
        /\ t.schedule.time[1] = "hhmm"
        /\ t.schedule.time[2] < DayLen}

\* The last tick was at or after the trigger time of task t, and is over.
TickedAfterTrigger(t) ==
    /\ pc = "idle"
    /\ heartbeat # <<>>
    /\ TimeOf(heartbeat[1]) >= t.schedule.time[2]

\* No document was edited since the scheduler started.
Unedited == opCount = 0

Undisturbed == restarts = 0 /\ pc \in {"started", "loop", "idle"} /\ Unedited

\* C1: with one scheduler that is neither killed nor restarted, run_task is
\* invoked for an enabled daily task with a valid time once on a calendar day
\* with a tick at or after the trigger time: never twice, and once when such
\* a tick is over.
C1_OncePerDay ==
    Undisturbed =>
        \A t \in DailyTasks :
            /\ invoked[t.id] <= 1
            /\ TickedAfterTrigger(t) => invoked[t.id] = 1

\* C2: whenever the process is killed inside a tick and started again, no
\* due task is left unrun on the day (a tick at or after its trigger time is
\* over and the task was invoked that day), no daily task runs to completion
\* a second time on the same day, and no todo's action returns a second time.
C2_NoSkipNoDoubleFire ==
    Unedited =>
        /\ \A t \in DailyTasks :
            /\ TickedAfterTrigger(t) => invoked[t.id] >= 1
            /\ completed[t.id] <= 1
        /\ ranTwice = {}

\* An iteration of the loop in which run_task raised.
RunRaised ==
    /\ pc = "loop"
    /\ cycle.i <= Len(cycle.tasks)
    /\ pc' # "dead"
    /\ lastOp'.raised
    /\ lastOp'.op # "evaluate_task"

\* C8: an exception of run_task is logged and leaves the scheduler in the loop
\* of the same tick, at the next task, with the tasks, the instant and the run
\* state of the tick as they were; the tick then ends as any other.
C8_TaskFailureIsContained ==
    [][RunRaised =>
        /\ pc' = "loop"
        /\ cycle'.i = cycle.i + 1
        /\ cycle'.tasks = cycle.tasks
        /\ cycle'.now = cycle.now
        /\ cycle'.state = cycle.state
        /\ <<"failed", cycle.tasks[cycle.i].id>> \in logged']_vars

\* The check failed, the task after it ran in the same tick, and the tick is
\* over with the scheduler asleep until the next one.
C8_Witness ==
    /\ pc = "idle"
    /\ clock < MaxTick
    /\ <<"failed", CheckTask.id>> \in logged
    /\ <<"done", CreateTask.id>> \in logged
    /\ stateDoc.shape = "obj"
    /\ stateDoc.entries[CreateTask.id] = Aware(clock)
    /\ stateDoc.entries[CheckTask.id] = Absent

\* C9: a document that is no JSON or has the wrong shape is taken as empty:
\* no exception leaves run_cycle, no task of a malformed task document runs,
\* a malformed run state is loaded as one without entries, and a todo_scan
\* over a malformed todo document returns, having dispatched nothing.
C9_MalformedIsEmpty ==
    /\ tasksDoc.shape # "list" =>
            pc # "crashed" /\ cycle.tasks = <<>> /\ invoked = NoRuns
    /\ stateDoc.shape # "obj" /\ pc = "loop" /\ cycle.i = 1 => cycle.state = NoEntries
    /\ todosDoc.shape # "list" /\ lastOp.op = "todo_scan" =>
            /\ pc # "crashed"
            /\ ~lastOp.raised
            /\ lastOp.dispatched = {}

\* An iteration of the loop of run_cycle: the task it is about, the entry of
\* the run state under the task's id, and whether run_task was called and
\* whether it returned.
Stepped == pc = "loop" /\ cycle.i <= Len(cycle.tasks) /\ pc' \in {"loop", "crashed"}
Current == cycle.tasks[cycle.i]
EntryOf == cycle.state[Current.id]
Ran == lastOp'.op = Current.type
RanOk == Ran /\ ~lastOp'.raised

\* The end of a tick.
TickEnded == pc = "loop" /\ pc' \in {"idle", "returned"}

IntervalTask(t) ==
    /\ t.enabled
    /\ t.schedule.shape = "obj"
    /\ t.schedule.kind = "interval"
    /\ t.schedule.minutes[1] = "int"

\* No run is recorded, or the run recorded is at least the interval ago.
IntervalElapsed(t, entry, now) ==
    \/ entry = Absent
    \/ entry[1] = "aware" /\ now - entry[2] >= t.schedule.minutes[2]

\* C13: an enabled interval task without run-state entry runs at the first
\* tick; with an entry it runs at a tick exactly when the interval has elapsed
\* since the run recorded; a run that returns puts the now of the tick under
\* the task's id, and the end of the tick writes it to the run-state document.
C13_IntervalCadence ==
    [][/\ Stepped /\ IntervalTask(Current) =>
            /\ Ran <=> IntervalElapsed(Current, EntryOf, cycle.now)
            /\ RanOk => cycle'.state[Current.id] = Aware(cycle.now)
       /\ TickEnded /\ cycle.state_changed => stateDoc' = StateObj(cycle.state)]_vars

\* The scan of every 2 minutes ran at instant 1 and, not at instant 2, again
\* at instant 3.
C13_Witness ==
    /\ pc = "loop"
    /\ restarts = 0
    /\ Unedited
    /\ cycle.now = 3
    /\ stateDoc.shape = "obj"
    /\ stateDoc.entries[ScanTask.id] = Aware(1)
    /\ cycle.state[ScanTask.id] = Aware(3)

DailyTask(t) ==
    /\ t.enabled
    /\ t.schedule.shape = "obj"
    /\ t.schedule.kind = "daily"
    /\ t.schedule.time[1] = "hhmm"
    /\ t.schedule.time[2] < DayLen

\* The run state shows no run on the day of now.
NotRunToday(entry, now) ==
    \/ entry = Absent
    \/ entry[1] = "aware" /\ DayOf(entry[2]) # DayOf(now)

\* C14: at every tick, the first one after a restart included, a daily task
\* whose time of day has passed and whose run state shows no run today is
\* run, whether or not a tick took place at the minute of its time.
C14_CatchUpAfterRestart ==
    [][/\ Stepped
       /\ DailyTask(Current)
       /\ TimeOf(cycle.now) >= Current.schedule.time[2]
       /\ NotRunToday(EntryOf, cycle.now)
       => Ran]_vars

\* The todo_create task of time 0 runs at instant 2, in the first tick after
\* the restart of a scheduler that was killed before it came to the task.
C14_Witness ==
    /\ restarts = 1
    /\ Unedited
    /\ pc = "loop"
    /\ cycle.now = 2
    /\ lastOp.op = "todo_create"
    /\ ~lastOp.raised
    /\ cycle.state[CreateTask.id] = Aware(2)
    /\ stateDoc.shape = "obj"
    /\ stateDoc.entries[CreateTask.id] = Absent

\* C15: a daily task is run at a tick exactly when the time of day of the
\* tick is at or after its time and the run state shows no run today; a run
\* that returns records the now of the tick, so that the task is run at the
\* first such tick of a day, not again that day, and again the next day.
C15_DailyCadence ==
    [][Stepped /\ DailyTask(Current) =>
            /\ Ran <=> /\ TimeOf(cycle.now) >= Current.schedule.time[2]
                        /\ NotRunToday(EntryOf, cycle.now)
            /\ RanOk => cycle'.state[Current.id] = Aware(cycle.now)]_vars

\* The todo_create task ran at instant 1, was skipped at instant 2 of the
\* same day, and ran again at instant 3, the next day.
C15_Witness ==
    /\ restarts = 0
    /\ Unedited
    /\ pc = "loop"
    /\ cycle.now = DayLen
    /\ stateDoc.shape = "obj"
    /\ stateDoc.entries[CreateTask.id] = Aware(1)
    /\ cycle.state[CreateTask.id] = Aware(DayLen)
    /\ Notice(CreateTask.id, 2, "already ran today") \in skip_notices

\* C16: a daily task whose run failed is not run again on that day.
C16_FailedRunIsNotRepeated ==
    Undisturbed =>
        \A t \in DailyTasks : invoked[t.id] > completed[t.id] => invoked[t.id] <= 1

\* The ids of the tasks that ran and returned in the tick under way.
RanIds == {id \in TaskIds : <<"done", id>> \in logged}

\* C17: the end of a tick changes the run-state document only if a task ran
\* in the tick; the document then maps every task that ran to the now of the
\* tick, and every other task to what the document held for it.
C17_RunStateWrite ==
    [][TickEnded =>
        /\ stateDoc' # stateDoc => RanIds # {}
        /\ RanIds # {} => stateDoc'.shape = "obj"
        /\ \A id \in TaskIds :
              stateDoc'.entries[id] =
                  IF id \in RanIds THEN Aware(cycle.now) ELSE load_state(stateDoc)[id]]_vars

\* The check ran at instant 2, the todo_create task did not: its entry is
\* that of instant 1.
C17_Witness ==
    /\ pc = "idle"
    /\ restarts = 0
    /\ Unedited
    /\ clock = 2
    /\ stateDoc.shape = "obj"
    /\ stateDoc.entries[CheckTask.id] = Aware(2)
    /\ stateDoc.entries[CreateTask.id] = Aware(1)

\* C18: the start of a tick writes the now of the tick to the heartbeat
\* before any task is looked at; nothing else writes it; and whether a task
\* is run is decided by the task, the now of the tick and the run state.
C18_Heartbeat ==
    [][/\ pc \in {"started", "idle"} /\ pc' = "loop" =>
            heartbeat' = <<cycle'.now>> /\ cycle'.now = clock' /\ cycle'.i = 1
       /\ pc = "loop" => heartbeat = <<cycle.now>> /\ heartbeat' = heartbeat
       /\ Stepped /\ Current.enabled =>
            LET e == evaluate_task(Current, cycle.now, EntryOf) IN
            Ran <=> ~e.raised /\ e.due]_vars

\* A tick at instant 2 over a task document whose one task is disabled.
C18_Witness ==
    /\ pc = "idle"
    /\ clock = 2
    /\ tasksDoc = ListDoc(<<DisabledTask>>)
    /\ heartbeat = <<2>>

\* C19: a tick takes its tasks from the task document and its run state from
\* the run-state document as they are at its start, and iterates over these
\* tasks.
C19_FreshLoad ==
    [][/\ pc \in {"started", "idle"} /\ pc' = "loop" =>
            /\ cycle'.tasks = load_tasks(tasksDoc)
            /\ cycle'.state = load_state(stateDoc)
       /\ pc' = "loop" => cycle'.tasks = load_tasks(tasksDoc')]_vars

\* The todo_create task ran at instant 1, was disabled by an edit, and is
\* skipped as disabled at instant 2.
C19_Witness ==
    /\ opCount = 1
    /\ pc = "loop"
    /\ cycle.now = 2
    /\ cycle.tasks = <<[CreateTask EXCEPT !.enabled = FALSE]>>
    /\ cycle.state[CreateTask.id] = Aware(1)
    /\ lastOp.op = "skip"
    /\ <<"disabled", CreateTask.id>> \in logged

\* C20: the iteration over a disabled task neither evaluates nor runs it and
\* leaves its run state alone; it logs the skip exactly when skip_notices has
\* no notice of the task and the day, and puts the notice there; and
\* skip_notices loses no notice while the process lives.
C20_DisabledIsSkipped ==
    [][/\ Stepped /\ ~Current.enabled =>
            /\ pc' = "loop"
            /\ lastOp'.op = "skip"
            /\ cycle'.state = cycle.state
            /\ todosDoc' = todosDoc
            /\ invoked' = invoked
            /\ <<"disabled", Current.id>> \in logged'
                    <=> Notice(Current.id, cycle.now, "disabled") \notin skip_notices
            /\ Notice(Current.id, cycle.now, "disabled") \in skip_notices'
       /\ pc' \notin {"dead", "crashed"} => skip_notices \subseteq skip_notices']_vars

\* The disabled task is skipped at instant 2 without a line in the log: its
\* notice is of instant 1.
C20_Witness ==
    /\ restarts = 0
    /\ pc = "loop"
    /\ cycle.now = 2
    /\ cycle.tasks = <<DisabledTask>>
    /\ cycle.i = 2
    /\ logged = {}
    /\ Notice(DisabledTask.id, 2, "disabled") \in skip_notices

----------------------------------------------------------------------------
(* Claims about the order of the runs within a tick (Spec) *)

\* The positions of the tick's task list of the given type whose run of this
\* tick has returned.
RanThisTick(type) ==
    {i \in 1..Len(cycle.tasks) :
        /\ cycle.tasks[i].type = type
        /\ i < cycle.i
        /\ cycle.state[cycle.tasks[i].id] = Aware(cycle.now)}

\* The todos that the todo_create task at position a made in this tick.
MadeAt(a) ==
    {todosDoc.items[k] : k \in {j \in 1..Len(todosDoc.items) :
        todosDoc.items[j].id = cycle.tasks[a].id \o <<Stamp(cycle.now)>>}}

Attempted(todo) == todo.status = "done" \/ todo.last_attempt_at # <<>>

\* C21: the loop handles the task at its position and moves to the next
\* position, so the due tasks of a tick run in the order of the task document,
\* each on the todo document that the runs before it left: when a todo_create
\* task and a todo_scan task both ran in the tick, the todo made in the tick
\* is in the document, and its action was dispatched by the scan if the
\* todo_create task stands before the scan, and was not if it stands after.
C21_RunsInDocumentOrder ==
    /\ [](pc = "loop" =>
            \A a \in RanThisTick("todo_create"), b \in RanThisTick("todo_scan") :
                /\ MadeAt(a) # {}
                /\ a < b => \A todo \in MadeAt(a) : Attempted(todo)
                /\ b < a => \A todo \in MadeAt(a) : ~Attempted(todo))
    /\ [][Stepped /\ pc' = "loop" =>
            /\ cycle'.i = cycle.i + 1
            /\ cycle'.tasks = cycle.tasks
            /\ cycle'.now = cycle.now
            /\ \A line \in logged' \ logged : line[2] = Current.id
            /\ \A id \in TaskIds \ {Current.id} : cycle'.state[id] = cycle.state[id]]_vars

\* The scan of the tick dispatched the todo that the task before it made in
\* the same tick.
C21_Witness ==
    /\ pc = "loop"
    /\ cycle.tasks = <<CreateTask, ScanTask>>
    /\ RanThisTick("todo_create") = {1}
    /\ RanThisTick("todo_scan") = {2}
    /\ \E todo \in MadeAt(1) : Attempted(todo)

\* The scan of the tick ran before the task that made a todo in the tick, and
\* the todo is left for a later scan.
C21_WitnessAfter ==
    /\ pc = "loop"
    /\ cycle.tasks = <<ScanTask, CreateTask>>
    /\ RanThisTick("todo_create") = {2}
    /\ RanThisTick("todo_scan") = {1}
    /\ \E todo \in MadeAt(2) : ~Attempted(todo)

----------------------------------------------------------------------------
(* Claims about run() (Spec) *)

\* run() began a tick: the heartbeat is written and the documents are loaded.
TickBegan == pc # "loop" /\ pc' = "loop"

\* run() ended, by return or by an exception (a kill is no end of run()).
RunEnded == pc \in {"started", "loop", "idle"} /\ pc' \in {"returned", "crashed"}

\* What run() does whatever leaves run_cycle: a tick begins when run() was
\* called or after the tick before it is over, its run state written; the
\* heartbeat is written when a tick begins and the run state when it ends,
\* nowhere else; and with once set there is one tick.
RunTicks ==
    /\ TickBegan => pc \in {"started", "idle"} /\ heartbeat' = <<clock'>>
    /\ ~TickBegan => heartbeat' = heartbeat
    /\ TickBegan /\ once => pc = "started"
    /\ pc = "returned" => pc' = "returned"
    /\ stateDoc' # stateDoc => TickEnded \/ (pc = "idle" /\ pc' = "idle")
    /\ TickEnded => cycle.i = Len(cycle.tasks) + 1 /\ (pc' = "returned" <=> once)

\* C22: run(once=True) makes one tick (one heartbeat write, one pass over the
\* whole task list, at most one write of the run state) and returns;
\* run(once=False) never ends, and begins a tick only when the tick before it
\* is over with its run state written.
C22_RunOnceOrForever ==
    [][/\ RunTicks
       /\ RunEnded => once /\ TickEnded]_vars

\* The same, but for the exceptions that leave run_cycle.
C22_RunTicks == [][RunTicks]_vars

\* run(once=True) has returned after a tick that ran a task and wrote the run
\* state.
C22_Witness ==
    /\ once
    /\ pc = "returned"
    /\ heartbeat = <<1>>
    /\ stateDoc.shape = "obj"
    /\ stateDoc.entries[ScanTask.id] = Aware(1)

----------------------------------------------------------------------------
(* Claims about what a scan writes, and when (Spec) *)

\* An iteration of the loop of run_cycle in which run_todo_scan was called
\* and did not raise.
ScanReturned == Stepped /\ Current.enabled /\ lastOp'.op = "todo_scan" /\ ~lastOp'.raised

\* The process was killed inside run_todo_scan, after a dispatch.
KilledInScan == pc = "loop" /\ pc' = "dead" /\ lastOp'.op = "killed"

\* What the scan of tick now leaves of an item whose dispatch returned, and
\* of one whose dispatch raised.
RecordedDone(todo, now) ==
    {[todo EXCEPT !.status = "done", !.done_at = <<now>>, !.result = <<result>>] :
        result \in {"output", "Command finished without output.", "Logged todo action."}}
RecordedFailed(todo, now) ==
    {[todo EXCEPT !.last_error = <<message>>, !.last_attempt_at = <<now>>] :
        message \in {"Command failed",
                     "Missing XINGYUN_REPO_PATH for Xingyun tag check.",
                     "Missing CHANGAN_REPO_PATH for Changan work order check."}}

\* C23: a scan changes an item only once its dispatch is over: an item that
\* was not dispatched is left as it was, one whose dispatch returned gets
\* status done, done_at and result and nothing else, one whose dispatch
\* raised gets last_error and last_attempt_at and keeps its status; nothing
\* is written while dispatches are under way (a process killed there leaves
\* the document as it was); and every done item of the document is one whose
\* dispatch returned.
C23_RecordAfterDispatch ==
    /\ [](todosDoc.shape = "list" =>
            \A i \in 1..Len(todosDoc.items) :
                todosDoc.items[i].status = "done" =>
                    /\ todosDoc.items[i].id \in ranOnce
                    /\ todosDoc.items[i].done_at # <<>>
                    /\ todosDoc.items[i].result # <<>>)
    /\ [][/\ KilledInScan => todosDoc' = todosDoc
          /\ ScanReturned =>
                /\ Len(todosDoc'.items) = Len(todosDoc.items)
                /\ \A i \in 1..Len(todosDoc.items) :
                    LET todo == todosDoc.items[i] IN
                    /\ i \notin lastOp'.dispatched => todosDoc'.items[i] = todo
                    /\ i \in lastOp'.succeeded =>
                            todosDoc'.items[i] \in RecordedDone(todo, cycle.now)
                    /\ i \in lastOp'.dispatched \ lastOp'.succeeded =>
                            todosDoc'.items[i] \in RecordedFailed(todo, cycle.now)]_vars

\* A scan left one item done, its dispatch having returned, and another one
\* open with the error of its dispatch.
C23_Witness ==
    /\ todosDoc.shape = "list"
    /\ lastOp.op = "todo_scan"
    /\ \E i \in lastOp.succeeded : todosDoc.items[i].status = "done"
    /\ \E i \in lastOp.dispatched \ lastOp.succeeded :
            /\ todosDoc.items[i].status = "open"
            /\ todosDoc.items[i].last_error # <<>>

----------------------------------------------------------------------------
(* Claims about the write of a scan (SpecTodo) *)

\* A call of run_todo_scan.
ScanCalled == lastOp'.op = "scan"

\* The document after the call holds what the whole loop left: every item
\* that was dispatched with the record of its dispatch, the others as they
\* were.
LoopWritten ==
    /\ todosDoc'.shape = "list"
    /\ Len(todosDoc'.items) = Len(todosDoc.items)
    /\ \A i \in 1..Len(todosDoc.items) :
        LET todo == todosDoc.items[i] IN
        /\ i \notin lastOp'.dispatched => todosDoc'.items[i] = todo
        /\ i \in lastOp'.succeeded => todosDoc'.items[i] \in RecordedDone(todo, clock)
        /\ i \in lastOp'.dispatched \ lastOp'.succeeded =>
                todosDoc'.items[i] \in RecordedFailed(todo, clock)

\* C24: a call of run_todo_scan that changed an item (it dispatched its
\* action, and marked it done or gave it last_error) writes the document
\* after the loop, with every change of the loop in it; a call that changed
\* no item leaves the document as it was.
C24_WriteOnceAfterLoop ==
    [][ScanCalled =>
        /\ lastOp'.dispatched = {} => todosDoc' = todosDoc
        /\ lastOp'.dispatched # {} => LoopWritten]_vars

\* The same for the calls that return.
C24_WriteWhenReturned ==
    [][ScanCalled /\ ~lastOp'.raised =>
        /\ lastOp'.dispatched = {} => todosDoc' = todosDoc
        /\ lastOp'.dispatched # {} => LoopWritten]_vars

\* The operation before was a scan in which the action of every item that
\* was due succeeded: each item that is open and due is one whose dispatch
\* returned.
ScannedWithSuccess ==
    /\ Scanned
    /\ \A i \in Positions :
            Items[i].kind = "obj" /\ OpenAndDue(Items[i]) => i \in lastOp.succeeded

\* C25: a scan that follows at once a scan in which every due item's action
\* succeeded dispatches nothing and leaves the document as it was.
C25_ScanTwice ==
    [][ScannedWithSuccess /\ ScanCalled =>
            lastOp'.dispatched = {} /\ todosDoc' = todosDoc]_vars

\* The same when the first of the two scans returned.
C25_ScanTwiceReturned ==
    [][ScannedWithSuccess /\ ~lastOp.raised /\ ScanCalled =>
            lastOp'.dispatched = {} /\ todosDoc' = todosDoc]_vars

----------------------------------------------------------------------------
(* Claims about the fields that an action needs (SpecTodo) *)

\* The positions of the items whose action is a named check.
NamedCheckItems ==
    {i \in Positions :
        /\ Items[i].kind = "obj"
        /\ Items[i].action.shape = "obj"
        /\ Items[i].action.type \in NamedChecks}

\* The dispatch of the item at position i failed for want of a repository.
MissingRepoPath(i) ==
    /\ DispatchFailed(i)
    /\ Items[i].last_error \in
            {<<"Missing XINGYUN_REPO_PATH for Xingyun tag check.">>,
             <<"Missing CHANGAN_REPO_PATH for Changan work order check.">>}

\* C26: the repository that the dispatch of a named check uses is the
\* action's own repo_path, else the variable of the check, else the default
\* of config.json; a scan fails the item without a subprocess exactly when
\* the three are absent.
C26_RepoPathPriority ==
    todosDoc.shape = "list" =>
        \A i \in NamedCheckItems :
            LET action == Items[i].action
                env_value == RepoPathVariable(env, action.type)
                resolved == ResolveRepoPathSource(action.repo_path, env_value,
                                get_repo_path_from_config(env, action.type))
            IN  /\ DispatchRepoPath(action, env_value) = resolved
                /\ Scanned /\ ~lastOp.raised /\ i \in lastOp.dispatched =>
                        (MissingRepoPath(i) <=> resolved = <<>>)

\* The same without the default of config.json: the action's own repo_path,
\* else the variable of the check.
C26_ActionThenVariable ==
    todosDoc.shape = "list" =>
        \A i \in NamedCheckItems :
            LET action == Items[i].action
                env_value == RepoPathVariable(env, action.type)
                resolved == ResolveRepoPathSource(action.repo_path, env_value, <<>>)
            IN  /\ DispatchRepoPath(action, env_value) = resolved
                /\ Scanned /\ ~lastOp.raised /\ i \in lastOp.dispatched =>
                        (MissingRepoPath(i) <=> resolved = <<>>)

\* The front end took a named check without repo_path because config.json
\* has a default, and the scan failed it for want of a repository.
C26_DefaultIsNotRead ==
    /\ todosDoc.shape = "list"
    /\ Scanned
    /\ \E i \in NamedCheckItems :
            /\ Items[i].id = <<"todo", Stamp(clock)>>
            /\ Items[i].action.repo_path = <<>>
            /\ get_repo_path_from_config(env, Items[i].action.type) # <<>>
            /\ MissingRepoPath(i)

\* A shell action without command.
LacksCommand(action) ==
    action.shape = "obj" /\ action.type = "shell" /\ action.command = <<>>

\* A named check for which neither the action, nor the variable, nor
\* config.json has a repository.
LacksRepoPath(action) ==
    /\ action.shape = "obj"
    /\ action.type \in NamedChecks
    /\ ResolveRepoPathSource(action.repo_path, RepoPathVariable(env, action.type),
                             get_repo_path_from_config(env, action.type)) = <<>>

\* The scan loaded the document, and left the item at position i, if it
\* dispatched it, open with the error and not done.
FailedAtDispatch(i) ==
    /\ ~lastOp.raised
    /\ i \in lastOp.dispatched =>
            /\ Items[i].status = "open"
            /\ Items[i].last_error # <<>>
            /\ Items[i].done_at = <<>>

\* C27: a scan of a document with a shell action without command, or with a
\* named check without a repository, does not fail at the load, and the
\* dispatch of such an action fails: the item stays open with last_error and
\* is not marked done.
C27_MissingFieldFailsDispatch ==
    Scanned /\ todosDoc.shape = "list" =>
        \A i \in Positions :
            /\ Items[i].kind = "obj"
            /\ LacksCommand(Items[i].action) \/ LacksRepoPath(Items[i].action)
            => FailedAtDispatch(i)

\* The same for the named checks alone.
C27_MissingRepoPathFailsDispatch ==
    Scanned /\ todosDoc.shape = "list" =>
        \A i \in Positions :
            Items[i].kind = "obj" /\ LacksRepoPath(Items[i].action) => FailedAtDispatch(i)

\* A scan marked a shell todo without command done.
C27_EmptyCommandIsDone ==
    /\ Scanned
    /\ todosDoc.shape = "list"
    /\ \E i \in lastOp.succeeded :
            /\ LacksCommand(Items[i].action)
            /\ Items[i].status = "done"
            /\ Items[i].result = <<"Command finished without output.">>

----------------------------------------------------------------------------
(* Claims about the growth of the todo list (SpecTodo) *)

\* A call of create_todo that returned.
Created == lastOp'.op = "create" /\ ~lastOp'.raised

\* The items of the document before the step are in the document after it,
\* each at its position: the same element, with the same id.
ItemsKept ==
    /\ todosDoc'.shape = "list"
    /\ Len(todosDoc'.items) >= Len(Items)
    /\ \A i \in Positions :
        /\ todosDoc'.items[i].kind = Items[i].kind
        /\ todosDoc'.items[i].id = Items[i].id

\* C28: a call of create_todo that returns appends one item, open, after the
\* items of the document and leaves these as they were; and no operation
\* (scan, create, add, update, close) on a document that is a list removes an
\* item or moves one to another position.
C28_AppendOnly ==
    [][/\ Created =>
            /\ todosDoc'.shape = "list"
            /\ Len(todosDoc'.items) = Len(Items) + 1
            /\ SubSeq(todosDoc'.items, 1, Len(Items)) = Items
            /\ todosDoc'.items[Len(Items) + 1].status = "open"
            /\ todosDoc'.items[Len(Items) + 1].kind = "obj"
       /\ todosDoc.shape = "list" => ItemsKept]_vars

\* create_todo put its item after an item that a scan had marked done.
C28_Witness ==
    /\ lastOp.op = "create"
    /\ ~lastOp.raised
    /\ todosDoc.shape = "list"
    /\ Len(Items) = 2
    /\ Items[1].status = "done"
    /\ Items[1].result = <<"output">>
    /\ Items[2].id = CreateTask.id \o <<Stamp(clock)>>
    /\ Items[2].status = "open"

----------------------------------------------------------------------------
(* Claims about the ids (SpecTodo) *)

\* The positions of the todo document, and of the task document, that hold
\* an object.
TodoPositions ==
    IF todosDoc.shape = "list" THEN {i \in Positions : Items[i].kind = "obj"} ELSE {}
TaskPositions ==
    IF tasksDoc.shape = "list" THEN 1..Len(tasksDoc.items) ELSE {}

UniqueTodoIds == \A i, j \in TodoPositions : Items[i].id = Items[j].id => i = j
UniqueTaskIds ==
    \A i, j \in TaskPositions : tasksDoc.items[i].id = tasksDoc.items[j].id => i = j

\* C29: no two items of the todo document have the same id and no two tasks
\* of the task document have the same id, whatever add_todo, create_todo and
\* add_schedule were called, records made in the same second included.
C29_UniqueIds == UniqueTodoIds /\ UniqueTaskIds

\* The todos that create_todo made: their id begins with the id of a task.
MadeByTask(i) == Len(Items[i].id) = 3

\* The same for the todos of create_todo alone, when the tasks differ in
\* their ids: no todo made by a task has the id of another item.
C29_CreatedIdsDiffer ==
    UniqueTaskIds =>
        \A i, j \in TodoPositions :
            MadeByTask(i) /\ Items[i].id = Items[j].id => i = j

\* Two todo_create tasks fired at the same instant, and their todos differ in
\* their ids.
C29_TwoTasksFired ==
    /\ Cardinality({i \in TodoPositions : MadeByTask(i) /\ Items[i].id[3] = Stamp(clock)}) = 2
    /\ UniqueTodoIds

\* Two calls of add_todo in the same second left two todos of the same id.
C29_SameSecond ==
    \E i, j \in TodoPositions :
        /\ i # j
        /\ Items[i].id = <<"todo", Stamp(clock)>>
        /\ Items[j].id = <<"todo", Stamp(clock)>>

----------------------------------------------------------------------------
(* Claims about the two writers of the documents (SpecTodo) *)

\* A step of the scheduler (a scan, a todo_create task), and a step of the
\* front end.  The operations of SpecTodo run one after another: none begins
\* before the one before it has written.
SchedulerStep == lastOp'.op \in {"scan", "create"}
FrontEndStep == lastOp'.op \in {"add", "update", "close", "schedule"}

\* The tasks of the task document are in the document after the step, each
\* at its position with its id.
TasksKept ==
    /\ tasksDoc'.shape = "list"
    /\ Len(tasksDoc'.items) >= Len(tasksDoc.items)
    /\ \A i \in 1..Len(tasksDoc.items) : tasksDoc'.items[i].id = tasksDoc.items[i].id

\* What the scheduler writes into an item, and what the front end writes.
ScanFields(todo) == <<todo.last_error, todo.last_attempt_at>>
FrontEndFields(todo) == <<todo.title, todo.due_at, todo.action>>

\* C30: when no operation of the front end overlaps one of the scheduler, no
\* todo and no task is lost, whoever appended it; a step of the front end
\* keeps what scans recorded (an item that is done, and the error of an open
\* one), and a step of the scheduler keeps what the front end wrote (title,
\* due time and action of every item, an item that was closed, and the task
\* document).
C30_NoLostUpdate ==
    [][/\ todosDoc.shape = "list" /\ (SchedulerStep \/ FrontEndStep) =>
            /\ ItemsKept
            /\ \A i \in Positions :
                Items[i].status = "done" => todosDoc'.items[i] = Items[i]
       /\ tasksDoc.shape = "list" /\ (SchedulerStep \/ FrontEndStep) => TasksKept
       /\ todosDoc.shape = "list" /\ FrontEndStep =>
            \A i \in Positions : ScanFields(todosDoc'.items[i]) = ScanFields(Items[i])
       /\ SchedulerStep =>
            /\ tasksDoc' = tasksDoc
            /\ todosDoc.shape = "list" =>
                \A i \in Positions :
                    FrontEndFields(todosDoc'.items[i]) = FrontEndFields(Items[i])]_vars

\* The document holds, after a scan, an item that add_todo appended behind an
\* item of the scheduler, and an item that has the error of a scan, the title
\* of a later update_todo, and the result of the scan after that.
C30_Witness ==
    /\ lastOp.op = "scan"
    /\ todosDoc.shape = "list"
    /\ \E i \in TodoPositions :
            /\ Items[i].title = "b"
            /\ Items[i].id[2] < 0
            /\ Items[i].last_error # <<>>
            /\ Items[i].status = "done"
    /\ \E j \in TodoPositions : Items[j].id = <<"todo", Stamp(clock)>>

----------------------------------------------------------------------------
(* C31 *)

\* A schedule object with the fields of its kind and no other.
DailyShape(s) ==
    /\ s.time[1] = "hhmm" /\ s.time[2] \in 0..(DayLen - 1)
    /\ s.minutes = <<"missing">> /\ s.day_of_week = ""
WeeklyShape(s) ==
    /\ s.time[1] = "hhmm" /\ s.time[2] \in 0..(DayLen - 1)
    /\ s.day_of_week \in {"mon", "tue", "wed", "thu", "fri", "sat", "sun"}
    /\ s.minutes = <<"missing">>
IntervalShape(s) ==
    /\ s.minutes[1] = "int" /\ s.minutes[2] > 0
    /\ s.time = <<"missing">> /\ s.day_of_week = ""
ScheduleShape(s) ==
    /\ s.shape = "obj"
    /\ CASE s.kind = "daily" -> DailyShape(s)
         [] s.kind = "weekly" -> WeeklyShape(s)
         [] s.kind = "interval" -> IntervalShape(s)
         [] OTHER -> FALSE

ScheduleReturned == lastOp'.op = "schedule"

\* C31: a call of add_schedule that returns an error leaves the task document
\* and the todo document as they were; any other call appends one todo_create
\* task whose schedule has the fields of its kind and no other: a time of the
\* day for daily, a weekday of mon..sun and a time of the day for weekly,
\* minutes above 0 for interval.
C31_ScheduleShape ==
    [][ScheduleReturned =>
        IF lastOp'.raised THEN tasksDoc' = tasksDoc /\ todosDoc' = todosDoc
        ELSE LET old == ensure_tasks(tasksDoc)
                 new == tasksDoc'.items
             IN  /\ tasksDoc'.shape = "list"
                 /\ Len(new) = Len(old) + 1
                 /\ SubSeq(new, 1, Len(old)) = old
                 /\ new[Len(new)].type = "todo_create"
                 /\ ScheduleShape(new[Len(new)].schedule)]_vars

\* add_schedule has appended a weekly task after an interval task.
C31_Witness ==
    /\ lastOp.op = "schedule" /\ ~lastOp.raised
    /\ Len(tasksDoc.items) = 2
    /\ tasksDoc.items[1].schedule.kind = "interval"
    /\ tasksDoc.items[2].schedule.kind = "weekly"
    /\ tasksDoc.items[2].schedule.day_of_week = "mon"

----------------------------------------------------------------------------
(* C32 (SpecTodo) *)

\* The items that a scan at the wall clock is to dispatch, and no other.
IsDue(i) == Items[i].kind = "obj" /\ OpenAndDue(Items[i])

\* The scan left the item at position i of the document as it was.
LeftAlone(i) ==
    /\ todosDoc'.shape = todosDoc.shape
    /\ i <= Len(todosDoc'.items)
    /\ todosDoc'.items[i] = Items[i]

\* C32: a scan dispatches the action of an item if and only if the item is
\* not done and its due time parses and has come; an item that is done, whose
\* due time is absent, does not parse or lies ahead, has every field after the
\* scan as before.
C32_DispatchIffDue ==
    [][ScanCalled =>
        \A i \in Positions :
            /\ i \in lastOp'.dispatched <=> IsDue(i)
            /\ ~IsDue(i) => LeftAlone(i)]_vars

\* The same, with the dispatch of every due item for the scans that return
\* only.
C32_DispatchIffDueReturned ==
    [][ScanCalled =>
        \A i \in Positions :
            /\ i \in lastOp'.dispatched => IsDue(i)
            /\ ~lastOp'.raised /\ IsDue(i) => i \in lastOp'.dispatched
            /\ ~IsDue(i) => LeftAlone(i)]_vars

\* A scan raised at an element that is no object and left out a shell todo
\* that is open and due.
C32_DueIsLeftOut ==
    /\ Scanned /\ lastOp.raised
    /\ \E i \in Positions :
            /\ IsDue(i) /\ Items[i].action = Shell
            /\ i \notin lastOp.dispatched

----------------------------------------------------------------------------
(* C33 (SpecRace) *)

\* An item that is done in the document is done after the step.
DoneKept ==
    \A i \in Positions :
        Items[i].status = "done" =>
            i <= Len(todosDoc'.items) /\ todosDoc'.items[i].status = "done"

\* The three parts of C33: no step removes an item from the document; no step
\* makes a done item open; the action of no todo returns twice.
C33_AppendedIsKept == [][ItemsKept]_vars
C33_DoneStaysDone == [][DoneKept]_vars
C33_DispatchedOnce == [](ranTwice = {})

\* C33: with the scheduler thread and a chat tool each between its load and
\* its write of the todo document, an item that a scan wrote as done is not
\* open afterwards and its action is not run a second time, and an item that
\* add_todo or create_todo appended stays in the document.
C33_NoLostUpdateInThreads ==
    /\ [][ItemsKept /\ DoneKept]_vars
    /\ [](ranTwice = {})

----------------------------------------------------------------------------
(* C34 (Spec) *)

\* A step of the scheduler process; the other steps are edits of a document
\* while the scheduler sleeps.
SchedulerMoved == ~(pc = "idle" /\ pc' = "idle")

\* C34: no step of the scheduler (the start of a tick, the run of a task, a
\* scan, the making of a todo, the end of a tick) changes the task document
\* or the environment: the tasks, their enabled flags, schedules and todo
\* templates change by an edit from outside only, and what the scheduler
\* writes is the heartbeat, the run state, the todo document and the log.
C34_TasksAreReadOnly ==
    [][SchedulerMoved => tasksDoc' = tasksDoc /\ env' = env]_vars

\* A tick in which a todo_create task and the scan ran has ended: heartbeat,
\* run state and todo document are written, and the task document is the one
\* that the tick loaded.
C34_Witness ==
    /\ pc = "idle"
    /\ tasksDoc = ListDoc(<<CreateTask, ScanTask>>)
    /\ heartbeat # <<>>
    /\ stateDoc.shape = "obj"
    /\ stateDoc.entries[CreateTask.id] # Absent
    /\ stateDoc.entries[ScanTask.id] # Absent
    /\ todosDoc.shape = "list"
    /\ Len(todosDoc.items) > 0

----------------------------------------------------------------------------
(* C35 (SpecDispatch) *)

\* The front end's validation takes the action in the environment.
Accepted(action) ==
    ~validate_action_requirements(action.type, action.repo_path, action.command, env)

\* C35: a named check that validate_action_requirements accepts in an
\* environment has a repository at its dispatch in that environment: no scan
\* fails it with "Missing ..._REPO_PATH".
C35_AcceptedIsResolvable ==
    todosDoc.shape = "list" /\ Scanned =>
        \A i \in NamedCheckItems : Accepted(Items[i].action) => ~MissingRepoPath(i)

\* The same for the environments whose config.json has no default for the
\* check.
C35_AcceptedWithoutDefault ==
    todosDoc.shape = "list" /\ Scanned =>
        \A i \in NamedCheckItems :
            /\ Accepted(Items[i].action)
            /\ get_repo_path_from_config(env, Items[i].action.type) = <<>>
            => ~MissingRepoPath(i)

----------------------------------------------------------------------------
(* C36 (SpecTypes) *)

\* The action of a todo that the dispatch takes for a note, and the types of
\* task that run_task knows.
TakenForNote(action) ==
    /\ action.shape # "notobj"
    /\ action.type \notin {"shell", "xingyun_tag_check", "changan_workorder_check"}
KnownTaskTypes ==
    {"todo_scan", "todo_create", "xingyun_tag_check", "changan_workorder_check"}

\* The scan of the tick has handled the item at position i as a note: whether
\* a subprocess would exit 0 or not has no say, the action appends its one
\* line to the log before the block of the result, and the item is done.
HandledAsNote(i) ==
    /\ \A ok \in BOOLEAN :
            /\ DispatchTodoAction(Items[i].action, env, ok) = Done("Logged todo action.")
            /\ ScanLines(Items[i], env, ok) = <<"TODO", "completed">>
    /\ i \in lastOp'.succeeded
    /\ todosDoc'.items[i] =
            [Items[i] EXCEPT !.status = "done", !.done_at = <<cycle.now>>,
                             !.result = <<"Logged todo action.">>]

\* The run of the task of the iteration failed and left no trace but the line
\* of the failure in the log.
FailedUnsupported ==
    /\ lastOp'.raised
    /\ pc' = "loop"
    /\ cycle'.state = cycle.state
    /\ cycle'.state_changed = cycle.state_changed
    /\ todosDoc' = todosDoc
    /\ <<"failed", Current.id>> \in logged'

\* C36: a scan handles a due todo whose action has a type that is none of
\* shell, xingyun_tag_check and changan_workorder_check (another name, a
\* misspelled one, no type, no action) as a note: it appends one line to the
\* log, starts no subprocess and marks the item done; a task whose type is
\* none of todo_scan, todo_create and the named checks fails when it is run,
\* and its entry of the run state stays as it was, in memory and on disk.
C36_UnknownTypes ==
    [][/\ Stepped /\ Ran /\ Current.type = "todo_scan" =>
            \A i \in Positions :
                IsDue(i) /\ TakenForNote(Items[i].action) => HandledAsNote(i)
       /\ Stepped /\ Ran /\ Current.type \notin KnownTaskTypes => FailedUnsupported
       /\ \A i \in 1..Len(tasksDoc.items) :
            tasksDoc.items[i].type \notin KnownTaskTypes =>
                stateDoc'.entries[tasksDoc.items[i].id] =
                    stateDoc.entries[tasksDoc.items[i].id]]_vars

\* A tick has ended in which a task of type "shell" failed and the scan
\* marked a todo whose action has the misspelled type "Shell" done.
C36_Witness ==
    /\ pc = "idle"
    /\ \E i \in 1..Len(tasksDoc.items) :
            /\ tasksDoc.items[i].type = "shell"
            /\ <<"failed", tasksDoc.items[i].id>> \in logged
            /\ stateDoc.entries[tasksDoc.items[i].id] = Aware(0)
    /\ \E i \in Positions :
            /\ Items[i].action.type = "Shell"
            /\ Items[i].status = "done"
            /\ Items[i].result = <<"Logged todo action.">>

----------------------------------------------------------------------------
(* Claims about the guard of the tool calls (SpecGuard) *)

\* The guard has let a close of more than one id through to execution.
MultiCloseLetThrough ==
    /\ guarded.call # <<>>
    /\ guarded.call[1].tool_name = "close_todo"
    /\ Len(guarded.call[1].todo_id) > 1

\* C37: guard_tool_call never lets a close_todo call of more than one id
\* through to execution unless the query of the user is a confirmation.  The
\* close of "these" tasks is let through with all the last candidates.
C37_MultiCloseNeedsConfirmation == MultiCloseLetThrough => guarded.query.confirm

\* The ids that the guard reads from a call and its query.
NamedBy(tool_call, query) == IF tool_call.todo_id # <<>> THEN tool_call.todo_id ELSE query.ids

\* The step is a call of the guard with a close_todo call.
GuardsClose == guarded'.n = guarded.n + 1 /\ guarded'.tool_call.tool_name = "close_todo"

\* C37, for the ids that the call or the query names: without a confirmation
\* a close of several ids is rejected and its ids are the pending action; a
\* confirmation that names no id executes the pending ids and clears them.
C37_NamedIdsWaitForConfirmation ==
    [][GuardsClose =>
        LET ids == NamedBy(guarded'.tool_call, guarded'.query) IN
        /\ Len(ids) > 1 /\ ~guarded'.query.confirm =>
                guarded'.call = <<>> /\ session'.pending_action = ids
        /\ ids = <<>> /\ guarded'.query.confirm /\ session.pending_action # <<>> =>
                /\ guarded'.call # <<>>
                /\ guarded'.call[1].todo_id = session.pending_action
                /\ session'.pending_action = <<>>
        /\ ids = <<>> /\ guarded'.query.confirm /\ session.pending_action = <<>> =>
                guarded'.call = <<>> \/ guarded'.call[1].todo_id = <<>>
                \/ guarded'.query.these]_vars

----------------------------------------------------------------------------
(* Claims about the errors of update_todo (SpecTodo) *)

\* The step is a call of update_todo that returned an error.
UpdateRefused == opCount' = opCount + 1 /\ lastOp'.op = "update" /\ lastOp'.raised

\* C38: when update_todo returns an error (not found, already done, a new
\* due time that is invalid or past, an unsupported action type, a failed
\* requirement of the action, nothing to change), the todo document on disk is
\* as it was, also when the new title of the call had been set in memory
\* before the error was found; the task document is as it was too.
C38_RefusedUpdateWritesNothing ==
    [][UpdateRefused => todosDoc' = todosDoc /\ tasksDoc' = tasksDoc]_vars

\* An update was refused on a document whose first item is open, has its
\* first title and can be found by its id: the error is none of "not found"
\* and "already done" for that item.
C38_Witness ==
    /\ lastOp.op = "update"
    /\ lastOp.raised
    /\ todosDoc.shape = "list"
    /\ Len(todosDoc.items) = 1
    /\ todosDoc.items[1].kind = "obj"
    /\ todosDoc.items[1].status = "open"
    /\ todosDoc.items[1].title = "a"

----------------------------------------------------------------------------
(* Claims about master_execute (SpecRoute) *)

\* A call of todo_chat_agent has a fresh query when its query is not that of
\* the call before it: the follow-up query that a tool result has just made,
\* or the query of a decision.
FreshQuery(chat) == chat.after = "tool" \/ chat.query = "decider"

\* C39: master_execute returns a response after at most _MAX_ITERS
\* iterations of its loop, whatever the decisions are; it calls
\* todo_chat_agent again with a fresh query only after a result of tool_agent;
\* and it never returns without an output message.
C39_MasterExecute ==
    /\ route.iters <= _MAX_ITERS
    /\ route.at = "loop" => route.iters < _MAX_ITERS \/ ENABLED RouteGiveUp
    /\ \A i \in 1..Len(route.chats) :
            FreshQuery(route.chats[i]) => route.chats[i].after = "tool"
    /\ route.at = "done" => route.output # <<>> /\ route.output[1] # ""

\* C39, its second part alone: a call of todo_chat_agent with a fresh query
\* comes after a result of tool_agent.
C39_FreshQueryOnlyAfterTool ==
    \A i \in 1..Len(route.chats) :
        FreshQuery(route.chats[i]) => route.chats[i].after = "tool"

\* C39, the loop alone: no more than _MAX_ITERS iterations begin, every
\* return has an output, the query at hand changes only to the follow-up of
\* a tool result, and an output that is empty is the text of todo_chat_agent.
C39_LoopIsBounded ==
    /\ route.iters <= _MAX_ITERS
    /\ route.at = "done" => route.output # <<>>
    /\ \A i \in 1..Len(route.chats) :
            route.chats[i].query = "followup" => route.current_query = "followup"
    /\ route.at = "done" /\ route.output = <<"">> => route.chats # <<>>
====
